---- MODULE Spec2Model ----
(***************************************************************************)
(* Model of the session tracker of uamana/hserv (package chunklog):        *)
(* SessionTracker.Send / Shutdown / run, with handleEvent, reap, flushAll, *)
(* flushSessions and addListenersTotal, the bounded events channel, the    *)
(* cancellable sink context and the pgx pool capped at one connection.     *)
(*                                                                         *)
(* Processes: producers calling Send, callers of Shutdown, the helper      *)
(* goroutine of each Shutdown call (wg.Wait; close(done)), the single      *)
(* worker goroutine run(), the deadline timer of each Shutdown context,    *)
(* the wall clock and the sink (which answers, fails or hangs).            *)
(***************************************************************************)
EXTENDS Integers, Sequences, FiniteSets, Bags, TLC

\* ------------------------------------------------------------------ bounds

\* Config.ChannelCap: capacity of the events channel.
ChannelCap == 1

\* Total number of Send calls over a run.
MaxSends == 2

\* Number of sampling ticks (stats.C) over a run that find a Session to
\* count (a tick that finds none changes nothing).
MaxSamples == 1

\* The wall clock runs over 0..MaxTime.
MaxTime == 1

\* The specification of the channel's order (OrderSpec): the capacity of the
\* events channel there, and the number of Send calls of each producer.
OrderCap == 2

OrderSends == 2

\* ----------------------------------------------------------- configuration

\* Config.SessionTimeout and Config.IcecastSessionTimeout (t.timeout and
\* t.icecastTimeout), in clock units: an HLS session idle for one tick has
\* expired, and so has an Icecast session.
SessionTimeout == 0

IcecastTimeout == 0

Producers == {"p1", "p2"}

Callers == {"s1", "s2"}

\* ------------------------------------------------------------ enumerations

EventSourceHLS == 0

EventSourceIceCast == 1

\* uuid.Nil, the all-zero UUID.  UUID values are modelled as integers.
NilUUID == 0

SidA == "11111111-1111-1111-1111-111111111111"

SidBad == "not-a-uuid"

UidA == "22222222-2222-2222-2222-222222222222"

UidB == "33333333-3333-3333-3333-333333333333"

\* uuid.Parse followed by the err != nil fallback to uuid.Nil: the well-formed
\* strings parse to distinct non-zero UUIDs, every other string to uuid.Nil.
uuidParse(s) ==
  CASE s = SidA -> 1
    [] s = UidA -> 2
    [] s = UidB -> 3
    [] s = "44444444-4444-4444-4444-444444444444" -> 4
    [] s = "55555555-5555-5555-5555-555555555555" -> 5
    [] OTHER -> NilUUID

\* uuidNew returning one and the same UUID.
uuidNewRepeated(n) == 100

\* uuid.New(): the n-th minted UUID, distinct from every parsed one.
uuidNew(n) == 100 + n

\* ------------------------------------------- Codec and ChunkQuality (185-263)

ChunkQualityLoFi == 0

ChunkQualityMidFi == 1

ChunkQualityHiFi == 2

ChunkQualityUnknown == 255

\* ChunkQualityNames (a Go slice, indexed from 0; the sequence from 1).
ChunkQualityNames == <<"lofi", "midfi", "hifi">>

\* ChunkQualityString that also names the value one past the slice.
ChunkQualityStringOffByOne(q) ==
  IF q < Len(ChunkQualityNames) - 1 THEN ChunkQualityNames[q + 1] ELSE "unknown"

\* func (c ChunkQuality) String()
ChunkQualityString(q) ==
  IF q < Len(ChunkQualityNames) THEN ChunkQualityNames[q + 1] ELSE "unknown"

ChunkQualityFromString(s) ==
  CASE s = "lofi" -> ChunkQualityLoFi
    [] s = "midfi" -> ChunkQualityMidFi
    [] s = "hifi" -> ChunkQualityHiFi
    [] OTHER -> ChunkQualityUnknown

CodecAAC == 0

CodecMP3 == 1

CodecAC3 == 2

CodecEAC3 == 3

CodecDolbyAtmos == 4

CodecFLAC == 5

CodecOpus == 6

CodecSpeex == 7

CodecVorbis == 8

CodecUnknown == 255

CodecNames ==
  <<"aac", "mp3", "ac3", "eac3", "dolby_atmos", "flac", "opus", "speex", "vorbis">>

\* func (c Codec) String()
CodecString(c) == IF c < Len(CodecNames) THEN CodecNames[c + 1] ELSE "unknown"

CodecFromString(s) ==
  CASE s = "aac" -> CodecAAC
    [] s = "mp3" -> CodecMP3
    [] s = "ac3" -> CodecAC3
    [] s = "eac3" -> CodecEAC3
    [] s = "dolby_atmos" -> CodecDolbyAtmos
    [] s = "flac" -> CodecFLAC
    [] s = "opus" -> CodecOpus
    [] s = "speex" -> CodecSpeex
    [] s = "vorbis" -> CodecVorbis
    [] OTHER -> CodecUnknown

\* ------------------------------------------------------------------- maps

\* mapDelete without the delete.
mapDeleteNothing(m, ks) == m

\* A Go map with no entry, and a map without the keys in ks.
EmptyMap == [k \in {} |-> 0]

mapDelete(m, ks) == [k \in DOMAIN m \ ks |-> m[k]]

\* ------------------------------------------------------------------- state

VARIABLES
  events,          \* t.events: the buffered channel's content
  closed,          \* t.events has been closed
  drops,           \* t.drops
  flushErrors,     \* t.flushErrors
  ctxCancelled,    \* t.ctx is cancelled
  poolClosed,      \* t.pool is closed
  onceDone,        \* t.once has run
  sessions,        \* run(): sessions map
  icecastSessions, \* run(): icecastSessions map
  minted,          \* number of uuid.New() calls so far
  wpc,             \* worker: "select" | "acquire" | "copy" | "exited"
  op,              \* worker: the flush in progress: "none" | "reap" | "sample" | "final"
  batch,           \* worker: the Sessions (or listeners_total rows) of the flush in progress
  connHeld,        \* the pool's single connection is acquired
  ppc,             \* producer: "idle" | "default" (in Send's default branch)
  spc,             \* Shutdown call: "idle" | "select" | "cancelled" | "returned" | "panicked"
  now,             \* wall clock
  sessionsTable,   \* sink: rows of table sessions (a bag)
  listenersTable,  \* sink: rows of table listeners_total (a bag)
  h,               \* history: counters of what has happened (observers only)
  calc             \* a calculation on the Codec and ChunkQuality enumerations

vars == <<events, closed, drops, flushErrors, ctxCancelled, poolClosed, onceDone,
          sessions, icecastSessions, minted, wpc, op, batch, connHeld, ppc, spc,
          now, sessionsTable, listenersTable, h, calc>>

trackerVars == <<drops, flushErrors, ctxCancelled, poolClosed, onceDone>>

storeVars == <<sessions, icecastSessions, minted>>

workerVars == <<wpc, op, batch, connHeld>>

shutdownVars == <<spc>>

sinkVars == <<sessionsTable, listenersTable>>

\* The history record: it is written by the actions and read only by properties.
\*   sent      Send calls started
\*   accepted  Send calls that returned true
\*   rejected  Send calls that returned false
\*   panicked  Send calls that panicked
\*   bytes     sum of ChunkSize over accepted events
\*   ingested  events handled by the worker  created   Sessions created
\*   enriched  newSessionFromEvent calls
\*   resolved  session UUIDs produced by identity resolution
\*   lost      Sessions in batches that failed to flush
\*   failed    failed flushes (batches)
\*   samples   sampling ticks that started a bulk copy
\*   closes    close(t.events) executions
\*   deadline  a Shutdown call has cancelled t.ctx on its deadline
HInit ==
  [sent |-> 0, accepted |-> 0, rejected |-> 0, panicked |-> 0, bytes |-> 0,
   ingested |-> 0, created |-> 0, enriched |-> 0, resolved |-> {},
   lost |-> 0, failed |-> 0,
   samples |-> 0, closes |-> 0, deadline |-> FALSE]

\* The tracker after NewSessionTracker.
TrackerInit ==
  /\ events = <<>>
  /\ closed = FALSE
  /\ drops = 0
  /\ flushErrors = 0
  /\ ctxCancelled = FALSE
  /\ poolClosed = FALSE
  /\ onceDone = FALSE
  /\ sessions = EmptyMap
  /\ icecastSessions = EmptyMap
  /\ minted = 0
  /\ wpc = "select"
  /\ op = "none"
  /\ batch = {}
  /\ connHeld = FALSE
  /\ ppc = [p \in Producers |-> "idle"]
  /\ spc = [s \in Callers |-> "idle"]
  /\ now = 0
  /\ sessionsTable = EmptyBag
  /\ listenersTable = EmptyBag
  /\ h = HInit

\* No calculation on the enumerations is in progress.
NoCalc == [pc |-> "none"]

Init == TrackerInit /\ calc = NoCalc

\* ------------------------------------------------------------------ events

\* The Time a handler stamps on an event: time.Now() when it builds the event,
\* which is at or before the moment its Send call runs the select.
EventTimes == 0..now

\* Strings that the code splits are sequences of their parts: an IP is the
\* sequence of its ":"-separated parts, a Path the sequence of the
\* "_"-separated parts of its base name (<<>> for the empty path).
\* What a request handled by hlsHandler contributes to its event:
\*   a well-formed request for a chunk;
\*   a request with a malformed sid, a three-token file name and the IPv6
\*   address ::1;
\*   a request with a malformed sid and uid, no path and a malformed address.
HLSRequests ==
  { [SID |-> SidA, UID |-> UidA, ChunkSize |-> 2,
     Path |-> <<"mp3", "hifi", "1700000000", "6.000", "42.ts">>,
     IP |-> <<"10.0.0.1", "55555">>, UserAgent |-> "Mozilla/5.0",
     Referer |-> "https://radio.example/"],
    [SID |-> SidBad, UID |-> UidB, ChunkSize |-> 1,
     Path |-> <<"aac", "lofi", "x.ts">>,
     IP |-> <<"", "", "1">>, UserAgent |-> "", Referer |-> ""],
    [SID |-> SidBad, UID |-> "not-a-uuid-either", ChunkSize |-> 1,
     Path |-> <<>>,
     IP |-> <<"bogus">>, UserAgent |-> "curl", Referer |-> ""] }

\* hlsHandler sets no Mount and no IcecastID: both keep Go's zero value.
HLSEvents ==
  {[Time |-> t, SID |-> c.SID, UID |-> c.UID, IcecastID |-> 0, Mount |-> "",
    ChunkSize |-> c.ChunkSize, Path |-> c.Path, IP |-> c.IP,
    UserAgent |-> c.UserAgent, Referer |-> c.Referer,
    Source |-> EventSourceHLS] :
     t \in EventTimes, c \in HLSRequests}

IcecastEvents ==
  {[Time |-> t, SID |-> "", UID |-> "", IcecastID |-> 7, Mount |-> "m",
    ChunkSize |-> 0, Path |-> <<>>, IP |-> <<"10.0.0.1">>,
    UserAgent |-> "Mozilla/5.0", Referer |-> "",
    Source |-> EventSourceIceCast] : t \in EventTimes}

EventInputs == HLSEvents \cup IcecastEvents

\* ------------------------------------------------------------- Send (72-82)

\* selectSend accepting one event over the capacity.
selectSendOverCap(q, isClosed) ==
  IF isClosed THEN "panic"
  ELSE IF Len(q) <= ChannelCap THEN "sent"
  ELSE "default"

\* The select of Send: a send on a closed channel panics, a send on a channel
\* with room succeeds, otherwise the default branch is taken.
selectSend(q, isClosed) ==
  IF isClosed THEN "panic"
  ELSE IF Len(q) < ChannelCap THEN "sent"
  ELSE "default"

\* chanSend putting the event in front of the buffered ones.
chanSendInFront(q, e) == <<e>> \o q

\* case t.events <- e: a Go channel is a first-in-first-out queue, the value
\* sent is received after the values buffered before it.
chanSend(q, e) == Append(q, e)

SendEnqueue(p) ==
  /\ ppc[p] = "idle"
  /\ h.sent < MaxSends
  /\ selectSend(events, closed) = "sent"
  /\ \E e \in EventInputs :
       /\ events' = chanSend(events, e)
       /\ h' = [h EXCEPT !.sent = @ + 1, !.accepted = @ + 1, !.bytes = @ + e.ChunkSize]
  /\ UNCHANGED <<calc, closed, trackerVars, storeVars, workerVars, ppc, shutdownVars, now, sinkVars>>

SendFull(p) ==
  /\ ppc[p] = "idle"
  /\ h.sent < MaxSends
  /\ selectSend(events, closed) = "default"
  /\ ppc' = [ppc EXCEPT ![p] = "default"]
  /\ h' = [h EXCEPT !.sent = @ + 1]
  /\ UNCHANGED <<calc, events, closed, trackerVars, storeVars, workerVars, shutdownVars, now, sinkVars>>

SendOnClosed(p) ==
  /\ ppc[p] = "idle"
  /\ h.sent < MaxSends
  /\ selectSend(events, closed) = "panic"
  /\ h' = [h EXCEPT !.sent = @ + 1, !.panicked = @ + 1]
  /\ UNCHANGED <<calc, events, closed, trackerVars, storeVars, workerVars, ppc, shutdownVars, now, sinkVars>>

\* dropsAdd losing the update.
dropsAddLost(d) == d

\* t.drops.Add(1)
dropsAdd(d) == d + 1

SendDrop(p) ==
  /\ ppc[p] = "default"
  /\ drops' = dropsAdd(drops)
  /\ ppc' = [ppc EXCEPT ![p] = "idle"]
  /\ h' = [h EXCEPT !.rejected = @ + 1]
  /\ UNCHANGED <<calc, events, closed, flushErrors, ctxCancelled, poolClosed, onceDone,
                 storeVars, workerVars, shutdownVars, now, sinkVars>>

\* ------------------------------------------------- enrichment (hserv.go 332)

\* net.IP(nil), the null address.
NullIP == "nil"

\* net.ParseIP: the textual addresses it accepts, nil for everything else.
netParseIP(s) == IF s \in {"10.0.0.1", "::1"} THEN s ELSE NullIP

\* parseEventIP storing the text without net.ParseIP.
parseEventIPUnparsed(ip) == ip[1]

\* Lines 359-363: with or without a ":" in it, the text handed to
\* net.ParseIP is the part before the first ":" (strings.Split(s, ":")[0] is
\* s itself when s holds no ":").
parseEventIP(ip) == netParseIP(ip[1])

\* useragent.Parser.Parse and the four accessors the code stores.
uaParse(ua) ==
  IF ua = "Mozilla/5.0"
    THEN [UABrowser |-> "Firefox", UABrowserVersion |-> "5.0",
          UADevice |-> "Desktop", UAOS |-> "Linux"]
    ELSE [UABrowser |-> "", UABrowserVersion |-> "", UADevice |-> "", UAOS |-> ""]

\* Lines 368-374: an empty User-Agent leaves the four fields at their zero value.
uaFields(ua) ==
  IF ua # "" THEN uaParse(ua)
  ELSE [UABrowser |-> "", UABrowserVersion |-> "", UADevice |-> "", UAOS |-> ""]

\* Lines 377-390: codec and quality from the first two "_"-separated parts of
\* the chunk's file name.
pathCodec(path) ==
  IF path # <<>> /\ Len(path) >= 2 THEN CodecFromString(path[1]) ELSE CodecUnknown

pathQuality(path) ==
  IF path # <<>> /\ Len(path) >= 2
    THEN ChunkQualityFromString(path[2]) ELSE ChunkQualityUnknown

\* newSessionFromEvent starting the byte count at zero.
newSessionFromEventNoBytes(e) ==
  [SID |-> uuidParse(e.SID), UID |-> uuidParse(e.UID), Source |-> e.Source,
   StartTime |-> e.Time, LastActive |-> e.Time, TotalBytes |-> 0,
   IP |-> parseEventIP(e.IP), Referer |-> e.Referer,
   Codec |-> pathCodec(e.Path), Quality |-> pathQuality(e.Path)]
  @@ uaFields(e.UserAgent)

newSessionFromEvent(e) ==
  [SID |-> uuidParse(e.SID), UID |-> uuidParse(e.UID), Source |-> e.Source,
   StartTime |-> e.Time, LastActive |-> e.Time, TotalBytes |-> e.ChunkSize,
   IP |-> parseEventIP(e.IP), Referer |-> e.Referer,
   Codec |-> pathCodec(e.Path), Quality |-> pathQuality(e.Path)]
  @@ uaFields(e.UserAgent)

\* The Session fields that reap, flushAll and addListenersTotal use (s.Mount,
\* s.icecastID, s.Duration): the enrichment of section 4.1 copies the first two
\* from the event, and the duration is zero until a flush computes it.
trackerFields(e) == [Mount |-> e.Mount, icecastID |-> e.IcecastID, Duration |-> 0]

\* ------------------------------------------------------ handleEvent (157-189)

\* Identity resolution: the session UUID of event e.
resolveSID(e) ==
  IF e.Source = EventSourceIceCast
    THEN IF e.IcecastID \in DOMAIN icecastSessions
           THEN icecastSessions[e.IcecastID]
           ELSE uuidNew(minted + 1)
    ELSE uuidParse(e.SID)

\* foldEvent without s.TotalBytes += e.ChunkSize.
foldEventNoBytes(s, e) == [s EXCEPT !.LastActive = e.Time]

\* foldEvent assigning instead of adding.
foldEventOverwritesBytes(s, e) ==
  [s EXCEPT !.LastActive = e.Time, !.TotalBytes = e.ChunkSize]

\* foldEvent that also restarts the Session.
foldEventRestarts(s, e) ==
  [s EXCEPT !.StartTime = e.Time, !.LastActive = e.Time, !.TotalBytes = @ + e.ChunkSize]

\* foldEvent that also takes the uid of the folded event.
foldEventTakesUID(s, e) ==
  [s EXCEPT !.UID = uuidParse(e.UID), !.LastActive = e.Time,
            !.TotalBytes = @ + e.ChunkSize]

\* The update of an existing Session (lines 180-184).
foldEvent(s, e) == [s EXCEPT !.LastActive = e.Time, !.TotalBytes = @ + e.ChunkSize]

\* assignSID without the assignment.
assignSIDSkipped(s, sid) == s

\* s.SID = sid (line 187)
assignSID(s, sid) == [s EXCEPT !.SID = sid]

\* enrichCalls for a handleEvent that builds the Session before the lookup.
enrichCallsBeforeLookup(m, sid) == 1

\* The newSessionFromEvent calls of one handleEvent call: the lookup of line
\* 180 returns at line 183 when the store holds sid, line 186 is reached
\* otherwise.
enrichCalls(m, sid) == IF sid \in DOMAIN m THEN 0 ELSE 1

handleEvent(e) ==
  LET sid == resolveSID(e)
      mint == e.Source = EventSourceIceCast /\ e.IcecastID \notin DOMAIN icecastSessions
      isNew == sid \notin DOMAIN sessions
  IN /\ icecastSessions' = IF mint THEN icecastSessions @@ (e.IcecastID :> sid)
                                   ELSE icecastSessions
     /\ minted' = IF mint THEN minted + 1 ELSE minted
     /\ sessions' = IF isNew
                      THEN sessions @@
                           (sid :> assignSID(newSessionFromEvent(e) @@ trackerFields(e),
                                             sid))
                      ELSE [sessions EXCEPT ![sid] = foldEvent(@, e)]
     /\ h' = [h EXCEPT !.ingested = @ + 1,
                       !.created = IF isNew THEN @ + 1 ELSE @,
                       !.enriched = @ + enrichCalls(sessions, sid),
                       !.resolved = @ \cup {sid}]

\* ------------------------------------------------------------ reap (191-220)

\* s.Duration = s.LastActive.Sub(s.StartTime)
withDuration(s) == [s EXCEPT !.Duration = s.LastActive - s.StartTime]

\* expires with the HLS comparison at, not after, the timeout.
expiresAtTimeout(s, t) ==
  IF s.Source = EventSourceIceCast
    THEN s.LastActive > s.StartTime \/ t - s.LastActive > IcecastTimeout
    ELSE t - s.LastActive >= SessionTimeout

\* expires taking an Icecast Session for ended when last_active is at, not
\* after, its start.
expiresIcecastAtStart(s, t) ==
  IF s.Source = EventSourceIceCast
    THEN s.LastActive >= s.StartTime \/ t - s.LastActive > IcecastTimeout
    ELSE t - s.LastActive > SessionTimeout

\* Whether the reaper expires Session s at time t.
expires(s, t) ==
  IF s.Source = EventSourceIceCast
    THEN s.LastActive > s.StartTime \/ t - s.LastActive > IcecastTimeout
    ELSE t - s.LastActive > SessionTimeout

expiredKeys(t) == {sid \in DOMAIN sessions : expires(sessions[sid], t)}

\* expiredIcecastIDs deleting no key.
expiredIcecastIDsNone(ks) == {}

\* The icecastSessions keys deleted for the expired Icecast sessions.
expiredIcecastIDs(ks) ==
  {sessions[sid].icecastID : sid \in {k \in ks : sessions[k].Source = EventSourceIceCast}}

\* --------------------------------------------- addListenersTotal (262-312)

\* qualifies counting an HLS Session only while it is younger than the timeout.
qualifiesBeforeTimeout(s, t) ==
  IF s.Source = EventSourceHLS
    THEN t - s.LastActive < SessionTimeout
    ELSE s.StartTime = s.LastActive

\* Whether the scan at time t counts Session s (lines 268-276).
qualifies(s, t) ==
  IF s.Source = EventSourceHLS
    THEN t - s.LastActive <= SessionTimeout
    ELSE s.StartTime = s.LastActive

\* hlsTotals and icecastTotals as rows {timestamp, source, mount, count}.
listenerRows(t) ==
  LET live == {sid \in DOMAIN sessions : qualifies(sessions[sid], t)}
      bucket(sid) == IF sessions[sid].Source = EventSourceHLS
                       THEN EventSourceHLS ELSE EventSourceIceCast
      keys == {<<bucket(sid), sessions[sid].Mount>> : sid \in live}
  IN {[timestamp |-> t, source |-> k[1], mount |-> k[2],
       count |-> Cardinality({sid \in live :
                    bucket(sid) = k[1] /\ sessions[sid].Mount = k[2]})] : k \in keys}

\* ------------------------------------------------------------- run (125-155)

\* atSelect for handlers that run beside a flush in progress.
atSelectOrFlushing(w) == w # "exited"

\* The worker is at the select of its for loop (line 136): handleEvent, reap,
\* addListenersTotal and flushAll are called from the loop's body and have
\* returned, with the flush they started, before the next select.
atSelect(w) == w = "select"

\* case e, ok := <-t.events with ok: a buffered event is received, also from
\* a closed channel.
WorkerRecv ==
  /\ atSelect(wpc)
  /\ events # <<>>
  /\ handleEvent(Head(events))
  /\ events' = Tail(events)
  /\ UNCHANGED <<calc, closed, trackerVars, workerVars, ppc, shutdownVars, now, sinkVars>>

\* chanClosedAndDrained taking a closed channel for a drained one.
chanClosedOnly(q, isClosed) == isClosed

\* !ok: the channel is closed and holds no more events.
chanClosedAndDrained(q, isClosed) == isClosed /\ q = <<>>

\* The start of a flushSessions or addListenersTotal call: the worker calls
\* pool.Acquire(t.ctx) for the rows.
startFlush(kind, rows) ==
  /\ wpc' = "acquire"
  /\ op' = kind
  /\ batch' = rows
  /\ connHeld' = connHeld

\* case !ok: flushAll(sessions); return   (flushAll: 222-235)
WorkerFlushAll ==
  /\ atSelect(wpc)
  /\ chanClosedAndDrained(events, closed)
  /\ sessions' = [sid \in DOMAIN sessions |-> withDuration(sessions[sid])]
  /\ IF DOMAIN sessions = {}
       THEN /\ wpc' = "exited"
            /\ UNCHANGED <<op, batch, connHeld, h>>
       ELSE /\ startFlush("final", {withDuration(sessions[sid]) : sid \in DOMAIN sessions})
            /\ UNCHANGED h
  /\ UNCHANGED <<calc, events, closed, trackerVars, icecastSessions, minted, ppc,
                 shutdownVars, now, sinkVars>>

\* case <-reaper.C: reap(sessions, icecastSessions)
WorkerReap ==
  /\ atSelect(wpc)
  /\ LET ks == expiredKeys(now)
     IN /\ sessions' = mapDelete(sessions, ks)
        /\ icecastSessions' = mapDelete(icecastSessions, expiredIcecastIDs(ks))
        /\ IF ks = {}
             THEN UNCHANGED workerVars
             ELSE startFlush("reap", {withDuration(sessions[sid]) : sid \in ks})
  /\ UNCHANGED <<calc, events, closed, trackerVars, minted, ppc, shutdownVars, now, sinkVars, h>>

\* sampledStore dropping the Sessions the scan does not count.
sampledStorePruned(m, t) == [k \in {j \in DOMAIN m : qualifies(m[j], t)} |-> m[k]]

\* The sessions map after the scan of addListenersTotal (lines 267-277): the
\* loop reads s.Source, s.LastActive, s.StartTime and s.Mount and writes
\* nothing to the map or to a Session.
sampledStore(m, t) == m

\* case <-stats.C: addListenersTotal(sessions)
WorkerSample ==
  /\ atSelect(wpc)
  /\ h.samples < MaxSamples
  /\ LET rows == listenerRows(now)
     IN IF rows = {}
          THEN UNCHANGED <<workerVars, h>>
          ELSE /\ startFlush("sample", rows)
               /\ h' = [h EXCEPT !.samples = @ + 1]
  /\ sessions' = sampledStore(sessions, now)
  /\ UNCHANGED <<calc, events, closed, trackerVars, icecastSessions, minted, ppc,
                 shutdownVars, now, sinkVars>>

\* ------------------------------------- flushSessions (237-260) and the sink

\* sinkCtxErr for sink calls made under a context that is never cancelled.
sinkCtxErrIgnored(cancelled) == FALSE

\* The context handed to pool.Acquire and CopyFrom is t.ctx: both fail at once
\* when it is cancelled.
sinkCtxErr(cancelled) == cancelled

\* The worker's position after a flush: flushAll is followed by return.
afterFlush(kind) == IF kind = "final" THEN "exited" ELSE "select"

\* flushFailed without flushErrors.Add(1).
flushFailedUncounted ==
  /\ flushErrors' = flushErrors
  /\ wpc' = afterFlush(op)
  /\ op' = "none"
  /\ batch' = {}
  /\ connHeld' = FALSE
  /\ h' = [h EXCEPT !.failed = @ + 1,
                    !.lost = IF op = "sample" THEN @ ELSE @ + Cardinality(batch)]
  /\ UNCHANGED <<calc, events, closed, drops, ctxCancelled, poolClosed, onceDone,
                 storeVars, ppc, shutdownVars, now, sinkVars>>

\* connRelease without the deferred conn.Release().
connReleaseSkipped(held) == held

\* defer conn.Release() (lines 245 and 287): the connection is back in the
\* pool when flushSessions or addListenersTotal returns, with or without an
\* error; a call that acquired nothing has nothing to release.
connRelease(held) == FALSE

\* A flush returns err: the caller adds one to flushErrors and drops the batch.
flushFailed ==
  /\ flushErrors' = flushErrors + 1
  /\ wpc' = afterFlush(op)
  /\ op' = "none"
  /\ batch' = {}
  /\ connHeld' = connRelease(connHeld)
  /\ h' = [h EXCEPT !.failed = @ + 1,
                    !.lost = IF op = "sample" THEN @ ELSE @ + Cardinality(batch)]
  /\ UNCHANGED <<calc, events, closed, drops, ctxCancelled, poolClosed, onceDone,
                 storeVars, ppc, shutdownVars, now, sinkVars>>

\* pool.Acquire returns the connection; the worker starts CopyFrom.
AcquireOk ==
  /\ wpc = "acquire"
  /\ ~sinkCtxErr(ctxCancelled)
  /\ ~connHeld
  /\ wpc' = "copy"
  /\ connHeld' = TRUE
  /\ UNCHANGED <<calc, events, closed, trackerVars, storeVars, op, batch, ppc,
                 shutdownVars, now, sinkVars, h>>

\* pool.Acquire fails on the sink's side (the database is unreachable).
AcquireErr ==
  /\ wpc = "acquire"
  /\ ~sinkCtxErr(ctxCancelled)
  /\ flushFailed

\* pool.Acquire returns the context's error.
AcquireCancelled ==
  /\ wpc = "acquire"
  /\ sinkCtxErr(ctxCancelled)
  /\ flushFailed

\* row writing the start time into the end_time column.
rowEndIsStart(s) ==
  [SID |-> s.SID, UID |-> s.UID, Source |-> s.Source, StartTime |-> s.StartTime,
   LastActive |-> s.StartTime, TotalBytes |-> s.TotalBytes, Codec |-> s.Codec,
   Quality |-> s.Quality, IP |-> s.IP, Referer |-> s.Referer,
   UABrowser |-> s.UABrowser, UABrowserVersion |-> s.UABrowserVersion,
   UADevice |-> s.UADevice, UAOS |-> s.UAOS]

\* func (s *Session) row(): the values of one row of table sessions, under
\* the names of the Session fields they are taken from (LastActive is the
\* end_time column).
row(s) ==
  [SID |-> s.SID, UID |-> s.UID, Source |-> s.Source, StartTime |-> s.StartTime,
   LastActive |-> s.LastActive, TotalBytes |-> s.TotalBytes, Codec |-> s.Codec,
   Quality |-> s.Quality, IP |-> s.IP, Referer |-> s.Referer,
   UABrowser |-> s.UABrowser, UABrowserVersion |-> s.UABrowserVersion,
   UADevice |-> s.UADevice, UAOS |-> s.UAOS]

\* CopyFrom writes the whole batch (for table sessions the rows built from the
\* batch at lines 247-250); the deferred conn.Release() follows.
CopyOk ==
  /\ wpc = "copy"
  /\ ~sinkCtxErr(ctxCancelled)
  /\ IF op = "sample"
       THEN /\ listenersTable' = listenersTable (+) SetToBag(batch)
            /\ UNCHANGED sessionsTable
       ELSE /\ sessionsTable' = sessionsTable (+) SetToBag({row(s) : s \in batch})
            /\ UNCHANGED listenersTable
  /\ wpc' = afterFlush(op)
  /\ op' = "none"
  /\ batch' = {}
  /\ connHeld' = connRelease(connHeld)
  /\ UNCHANGED <<calc, events, closed, trackerVars, storeVars, ppc, shutdownVars, now, h>>

\* CopyFrom fails on the sink's side; nothing is written.
CopyErr ==
  /\ wpc = "copy"
  /\ ~sinkCtxErr(ctxCancelled)
  /\ flushFailed

\* CopyFrom unwinds with the context's error; nothing is written.
CopyCancelled ==
  /\ wpc = "copy"
  /\ sinkCtxErr(ctxCancelled)
  /\ flushFailed

\* ---------------------------------------------------------------- the clock

AdvanceClock ==
  /\ now < MaxTime
  /\ now' = now + 1
  /\ UNCHANGED <<calc, events, closed, trackerVars, storeVars, workerVars, ppc,
                 shutdownVars, sinkVars, h>>

\* --------------------------------------------------------- Shutdown (84-112)

\* onceRuns without the sync.Once.
onceRunsAlways(isDone) == TRUE

\* t.once.Do(f): f runs on the first call only.
onceRuns(isDone) == ~isDone

\* t.once.Do(func() { close(t.events) }); the helper goroutine is started and
\* the call reaches its select.  Closing a closed channel panics.
ShutdownCall(s) ==
  /\ spc[s] = "idle"
  /\ IF onceRuns(onceDone)
       THEN IF closed
              THEN /\ spc' = [spc EXCEPT ![s] = "panicked"]
                   /\ UNCHANGED <<closed, h>>
              ELSE /\ closed' = TRUE
                   /\ spc' = [spc EXCEPT ![s] = "select"]
                   /\ h' = [h EXCEPT !.closes = @ + 1]
       ELSE /\ spc' = [spc EXCEPT ![s] = "select"]
            /\ UNCHANGED <<closed, h>>
  /\ onceDone' = TRUE
  /\ UNCHANGED <<calc, events, drops, flushErrors, ctxCancelled, poolClosed, storeVars,
                 workerVars, ppc, now, sinkVars>>

\* doneClosed with done closed before the worker has exited.
doneClosedAtOnce(w) == TRUE

\* done, the channel closed by go func() { t.wg.Wait(); close(done) }():
\* wg.Wait returns once run() has executed its deferred wg.Done.
doneClosed(w) == w = "exited"

\* poolClose without the t.pool.Close() of line 111.
poolCloseSkipped(isClosed) == isClosed

\* t.pool.Close(): the pool is closed afterwards, whether this call or an
\* earlier one closed it (pgxpool closes under a sync.Once).
poolClose(isClosed) == TRUE

\* The tail of Shutdown: t.cancel(); t.pool.Close(); return.  Both calls are
\* idempotent (context.CancelFunc, pgxpool's closeOnce); pool.Close waits for
\* the acquired connection to be released.
shutdownTail(s) ==
  /\ ~connHeld
  /\ ctxCancelled' = TRUE
  /\ poolClosed' = poolClose(poolClosed)
  /\ spc' = [spc EXCEPT ![s] = "returned"]

\* case <-done: run() exited cleanly.
ShutdownDone(s) ==
  /\ spc[s] = "select"
  /\ doneClosed(wpc)
  /\ shutdownTail(s)
  /\ UNCHANGED <<calc, events, closed, drops, flushErrors, onceDone, storeVars,
                 workerVars, ppc, now, sinkVars, h>>

\* cancelOnDeadline without the t.cancel() of the deadline branch.
cancelOnDeadlineSkipped(cancelled) == cancelled

\* The context after the deadline branch has run t.cancel() (line 106).
cancelOnDeadline(cancelled) == TRUE

\* case <-ctx.Done(): the deadline of the context passed to Shutdown has
\* elapsed; t.cancel(), then the call waits on done.
ShutdownDeadline(s) ==
  /\ spc[s] = "select"
  /\ ctxCancelled' = cancelOnDeadline(ctxCancelled)
  /\ spc' = [spc EXCEPT ![s] = "cancelled"]
  /\ h' = [h EXCEPT !.deadline = TRUE]
  /\ UNCHANGED <<calc, events, closed, drops, flushErrors, poolClosed, onceDone,
                 storeVars, workerVars, ppc, now, sinkVars>>

\* cancelledMayProceed without the <-done of the deadline branch.
cancelledProceedsAtOnce(w) == TRUE

\* <-done after the cancellation (line 107).
cancelledMayProceed(w) == doneClosed(w)

ShutdownAfterCancel(s) ==
  /\ spc[s] = "cancelled"
  /\ cancelledMayProceed(wpc)
  /\ shutdownTail(s)
  /\ UNCHANGED <<calc, events, closed, drops, flushErrors, onceDone, storeVars,
                 workerVars, ppc, now, sinkVars, h>>

\* ------------------------------------------------------------ specification

Next ==
  \/ \E p \in Producers : SendEnqueue(p)
  \/ \E p \in Producers : SendFull(p)
  \/ \E p \in Producers : SendOnClosed(p)
  \/ \E p \in Producers : SendDrop(p)
  \/ WorkerRecv
  \/ WorkerFlushAll
  \/ WorkerReap
  \/ WorkerSample
  \/ AcquireOk
  \/ AcquireErr
  \/ AcquireCancelled
  \/ CopyOk
  \/ CopyErr
  \/ CopyCancelled
  \/ AdvanceClock
  \/ \E s \in Callers : ShutdownCall(s)
  \/ \E s \in Callers : ShutdownDone(s)
  \/ \E s \in Callers : ShutdownDeadline(s)
  \/ \E s \in Callers : ShutdownAfterCancel(s)

Spec == Init /\ [][Next]_vars

\* ------------------------------------ calculations on the enumerations

\* Values of type Codec and ChunkQuality (a byte): the named constants and
\* some unnamed values.
NamedCodecs ==
  {CodecAAC, CodecMP3, CodecAC3, CodecEAC3, CodecDolbyAtmos, CodecFLAC, CodecOpus,
   CodecSpeex, CodecVorbis, CodecUnknown}

CodecValues == NamedCodecs \cup {9, 254}

NamedQualities ==
  {ChunkQualityLoFi, ChunkQualityMidFi, ChunkQualityHiFi, ChunkQualityUnknown}

QualityValues == NamedQualities \cup {3}

\* The lowercase tokens of the named values other than Unknown.
CodecTokens == {CodecNames[i] : i \in 1..Len(CodecNames)}

QualityTokens == {ChunkQualityNames[i] : i \in 1..Len(ChunkQualityNames)}

\* Strings handed to the parsers.
Tokens ==
  CodecTokens \cup QualityTokens \cup
  {"unknown", "", "MP3", "Hifi", "mp4", "dolby-atmos", "42.ts"}

\* A calculation starts from a Codec value, a ChunkQuality value and a token.
EnumInit ==
  /\ TrackerInit
  /\ calc \in {[pc |-> "start", codec |-> c, quality |-> q, token |-> s] :
                 c \in CodecValues, q \in QualityValues, s \in Tokens}

\* c.String() and q.String()
EnumString ==
  /\ calc.pc = "start"
  /\ calc' = [pc |-> "printed", codec |-> calc.codec, quality |-> calc.quality,
              token |-> calc.token,
              codecName |-> CodecString(calc.codec),
              qualityName |-> ChunkQualityString(calc.quality)]
  /\ UNCHANGED <<events, closed, trackerVars, storeVars, workerVars, ppc,
                 shutdownVars, now, sinkVars, h>>

\* CodecFromString and ChunkQualityFromString of the printed names and of the
\* token.
EnumParse ==
  /\ calc.pc = "printed"
  /\ calc' = [pc |-> "parsed", codec |-> calc.codec, quality |-> calc.quality,
              token |-> calc.token,
              codecName |-> calc.codecName, qualityName |-> calc.qualityName,
              codecBack |-> CodecFromString(calc.codecName),
              qualityBack |-> ChunkQualityFromString(calc.qualityName),
              tokenCodec |-> CodecFromString(calc.token),
              tokenQuality |-> ChunkQualityFromString(calc.token)]
  /\ UNCHANGED <<events, closed, trackerVars, storeVars, workerVars, ppc,
                 shutdownVars, now, sinkVars, h>>

EnumNext == EnumString \/ EnumParse

EnumSpec == EnumInit /\ [][EnumNext]_vars

\* ------------------------------------------------ the order of the channel

\* Send and the receive of run() on a channel of capacity OrderCap, with no
\* tick and no Shutdown.  Every event carries, for the observer, its producer
\* and its number among the Send calls of that producer; calc records
\*   next      the Send calls each producer has made
\*   accepted  the (producer, number) pairs of the events Send accepted
\*   log       the (producer, number) pairs of the events handled, in order
OrderInit ==
  /\ TrackerInit
  /\ calc = [pc |-> "chan", next |-> [p \in Producers |-> 0], accepted |-> {},
             log |-> <<>>]

\* Send (72-82): the event is buffered when the channel has room, otherwise
\* the default branch counts a drop.
OrderSend(p) ==
  /\ calc.pc = "chan"
  /\ calc.next[p] < OrderSends
  /\ \E e \in EventInputs :
       LET n == calc.next[p] + 1
           tagged == e @@ [from |-> p, n |-> n]
       IN IF Len(events) < OrderCap
            THEN /\ events' = chanSend(events, tagged)
                 /\ drops' = drops
                 /\ calc' = [calc EXCEPT !.next[p] = n, !.accepted = @ \cup {<<p, n>>}]
                 /\ h' = [h EXCEPT !.sent = @ + 1, !.accepted = @ + 1,
                                   !.bytes = @ + e.ChunkSize]
            ELSE /\ events' = events
                 /\ drops' = dropsAdd(drops)
                 /\ calc' = [calc EXCEPT !.next[p] = n]
                 /\ h' = [h EXCEPT !.sent = @ + 1, !.rejected = @ + 1]
  /\ UNCHANGED <<closed, flushErrors, ctxCancelled, poolClosed, onceDone, storeVars,
                 workerVars, ppc, shutdownVars, now, sinkVars>>

\* case e, ok := <-t.events; t.handleEvent(e, ...)   (137-143)
OrderRecv ==
  /\ calc.pc = "chan"
  /\ atSelect(wpc)
  /\ events # <<>>
  /\ handleEvent(Head(events))
  /\ events' = Tail(events)
  /\ calc' = [calc EXCEPT !.log = Append(@, <<Head(events).from, Head(events).n>>)]
  /\ UNCHANGED <<closed, trackerVars, workerVars, ppc, shutdownVars, now, sinkVars>>

OrderNext == (\E p \in Producers : OrderSend(p)) \/ OrderRecv

OrderSpec == OrderInit /\ [][OrderNext]_vars

\* ----------------------------------------------------------------- fairness

\* The worker's and the Shutdown calls' steps are taken as long as they stay
\* possible (the Go scheduler runs every runnable goroutine, a select with a
\* ready case proceeds, a context deadline elapses).  Nothing is assumed of
\* the sink: AcquireOk, AcquireErr, CopyOk and CopyErr may never happen, so a
\* sink call may block until t.ctx is cancelled.
Fairness ==
  /\ WF_vars(WorkerRecv)
  /\ WF_vars(WorkerFlushAll)
  /\ WF_vars(AcquireCancelled)
  /\ WF_vars(CopyCancelled)
  /\ \A s \in Callers : WF_vars(ShutdownDone(s))
  /\ \A s \in Callers : WF_vars(ShutdownDeadline(s))
  /\ \A s \in Callers : WF_vars(ShutdownAfterCancel(s))

LiveSpec == Init /\ [][Next]_vars /\ Fairness

\* ------------------------------------------------------------ observations

\* Producers between the default branch of Send's select and drops.Add(1).
inDefault == {p \in Producers : ppc[p] = "default"}

\* Send calls that have returned.
completedSends == h.accepted + h.rejected

someReturned == \E s \in Callers : spc[s] = "returned"

RECURSIVE sumBytes(_, _)
\* Sum of total_bytes over the rows rs of bag b.
sumBytes(b, rs) ==
  IF rs = {} THEN 0
  ELSE LET r == CHOOSE x \in rs : TRUE
       IN r.TotalBytes * CopiesIn(r, b) + sumBytes(b, rs \ {r})

tableBytes == sumBytes(sessionsTable, BagToSet(sessionsTable))

tableRows == BagCardinality(sessionsTable)

\* ------------------------------------------------------------------ claims

\* A step in which a Send call runs its select on the open channel.
sendStep == h'.sent = h.sent + 1 /\ ~closed

\* C1: a Send on the open channel appends its event and returns true iff the
\* channel holds fewer than ChannelCap events; otherwise it leaves the channel
\* unchanged, returns false and adds exactly one to drops (drops changes in no
\* other step).  The channel never holds more than ChannelCap events.
C1_SendAcceptsIffRoom ==
  /\ [](Len(events) <= ChannelCap)
  /\ [][/\ sendStep /\ Len(events) < ChannelCap =>
             /\ Len(events') = Len(events) + 1
             /\ SubSeq(events', 1, Len(events)) = events
             /\ h'.accepted = h.accepted + 1
             /\ drops' = drops /\ ppc' = ppc
        /\ sendStep /\ Len(events) >= ChannelCap =>
             /\ events' = events
             /\ h'.accepted = h.accepted
             /\ \E p \in Producers : ppc[p] = "idle" /\ ppc'[p] = "default"
        /\ \A p \in Producers : ppc[p] = "default" /\ ppc'[p] = "idle" =>
             /\ drops' = drops + 1
             /\ h'.rejected = h.rejected + 1
             /\ events' = events
        /\ drops' # drops =>
             \E p \in Producers : ppc[p] = "default" /\ ppc'[p] = "idle"]_vars

C1_Witness == drops = 1 /\ h.rejected = 1 /\ h.accepted = ChannelCap /\ ~closed

\* C2: the only outcomes of a Send call are returning true and returning
\* false, also for a call that runs after Shutdown has closed the channel.
C2_SendNeverFails == h.panicked = 0

\* C3: drops equals the number of Send calls that returned false, and
\* accepted + drops equals the number of Send calls that have returned; while
\* the worker has consumed nothing, the accepted events are exactly the queued
\* ones, and once more than ChannelCap calls have returned exactly ChannelCap
\* returned true and the others were dropped.
C3_DropsCountRejected ==
  /\ drops = h.rejected
  /\ h.accepted + drops = h.sent - Cardinality(inDefault) - h.panicked
  /\ h.ingested = 0 =>
       /\ h.accepted = Len(events)
       /\ completedSends > ChannelCap =>
            h.accepted = ChannelCap /\ drops = completedSends - ChannelCap

C3_Witness ==
  h.ingested = 0 /\ completedSends > ChannelCap /\ drops = completedSends - ChannelCap

\* C4: the worker starts the final flush only when the channel is closed and
\* every accepted event has been ingested; the batch of the final flush holds
\* every Session of the store; with a sink that did not fail every Session of
\* the store is then in table sessions; Shutdown returns only after the worker
\* has exited.
C4_DrainThenFlushAll ==
  /\ op = "final" =>
       /\ closed /\ events = <<>> /\ h.ingested = h.accepted
       /\ batch = {sessions[sid] : sid \in DOMAIN sessions}
  /\ wpc = "exited" =>
       /\ closed /\ events = <<>> /\ h.ingested = h.accepted
       /\ h.failed = 0 => \A sid \in DOMAIN sessions : BagIn(row(sessions[sid]), sessionsTable)
  /\ \A s \in Callers : spc[s] = "returned" => wpc = "exited"

C4_Witness ==
  /\ someReturned /\ ~h.deadline /\ h.failed = 0
  /\ h.accepted >= 1 /\ h.ingested = h.accepted
  /\ tableRows >= 1 /\ DOMAIN sessions # {}

\* C5: after a Shutdown that returned with no failed flush, the total_bytes of
\* the rows of table sessions add up to the ChunkSize of the accepted events.
C5_NoAcceptedByteLost == someReturned /\ h.failed = 0 => tableBytes = h.bytes

C5_Witness ==
  /\ someReturned /\ h.failed = 0 /\ h.accepted = 2
  /\ \E r \in BagToSet(sessionsTable) : r.TotalBytes = 4

\* C6 as stated: after Shutdown, rows written plus Sessions of failed batches
\* equals the number of distinct resolved session UUIDs.
C6_RowsEqualDistinctUUIDs ==
  someReturned => tableRows + h.lost = Cardinality(h.resolved)

\* C6 amended: after Shutdown, rows written plus Sessions of failed batches
\* equals the number of Sessions created, which is at least the number of
\* distinct resolved session UUIDs (a UUID seen again after its Session was
\* reaped gets a second Session and a second row).
C6_RowsEqualSessionsCreated ==
  someReturned =>
    /\ tableRows + h.lost = h.created
    /\ h.created >= Cardinality(h.resolved)

C6_Witness == someReturned /\ h.created = 2 /\ Cardinality(h.resolved) = 1

\* C7: the pool is closed only after the worker has exited, on both paths; a
\* call that took the deadline branch has cancelled t.ctx and returns (closing
\* the pool) only once the worker has exited.
C7_PoolClosedAfterWorkerExit ==
  /\ poolClosed => wpc = "exited"
  /\ \A s \in Callers :
       /\ spc[s] = "cancelled" => ctxCancelled
       /\ spc[s] = "returned" => poolClosed /\ ctxCancelled /\ wpc = "exited"

C7_Witness ==
  \E s \in Callers : spc[s] = "cancelled" /\ wpc \in {"acquire", "copy"} /\ ~poolClosed

\* C8: every Shutdown call eventually returns, with the worker exited, also
\* when the sink never answers.
C8_ShutdownTerminates ==
  \A s \in Callers : (spc[s] # "idle") ~> (spc[s] = "returned" /\ wpc = "exited")

C8_Witness ==
  /\ someReturned /\ h.deadline /\ flushErrors >= 1
  /\ tableRows = 0 /\ DOMAIN sessions # {}

\* C9: the channel is closed exactly once and no Shutdown call panics; a step
\* of a Shutdown call taken after some call has returned changes neither the
\* store, the counters, the channel, the context, the pool nor the tables.
C9_ShutdownIdempotent ==
  /\ [](/\ h.closes <= 1
        /\ closed <=> h.closes = 1
        /\ \A s \in Callers : spc[s] # "panicked")
  /\ [][someReturned /\ spc' # spc =>
          UNCHANGED <<events, closed, drops, flushErrors, ctxCancelled, poolClosed,
                      sessions, icecastSessions, sessionsTable, listenersTable>>]_vars

C9_Witness == \A s \in Callers : spc[s] = "returned"

\* C10 as stated: once a Shutdown call has cancelled t.ctx on its deadline,
\* the worker starts no sink call.
C10_NoSinkCallAfterCancel ==
  [][h.deadline /\ wpc = "select" => wpc' # "acquire"]_vars

\* C10 amended: once a Shutdown call has cancelled t.ctx on its deadline, every
\* sink call of the worker fails: no connection is acquired, no bulk copy is
\* started, no row is written, and each call that ends adds one to flushErrors.
C10_SinkCallsFailAfterCancel ==
  [][h.deadline =>
       /\ UNCHANGED <<sessionsTable, listenersTable>>
       /\ connHeld' => connHeld
       /\ wpc' = "copy" => wpc = "copy"
       /\ wpc \in {"acquire", "copy"} /\ wpc' \notin {"acquire", "copy"} =>
            flushErrors' = flushErrors + 1]_vars

C10_Witness ==
  /\ h.deadline /\ wpc = "acquire" /\ op = "final"
  /\ flushErrors >= 1 /\ tableRows = 0

\* ------------------------------------------------- claims about the store

\* A step in which the worker dequeues and ingests the event at the head of
\* the channel.
ingestStep == h'.ingested = h.ingested + 1

\* Keys that are in the store before and after a step.
kept == DOMAIN sessions \cap DOMAIN sessions'

\* C11: an ingest step sets total_bytes of a created Session to the event's
\* ChunkSize and adds the event's ChunkSize to total_bytes of the Session the
\* event is folded into; it changes no other Session's total_bytes and no
\* other step changes any; total_bytes of a Session in the store never
\* decreases.
C11_TotalBytesIsFoldedSum ==
  [][/\ ingestStep =>
          LET e == Head(events)
              sid == resolveSID(e)
          IN /\ DOMAIN sessions' = DOMAIN sessions \cup {sid}
             /\ sessions'[sid].TotalBytes =
                  IF sid \in DOMAIN sessions
                    THEN sessions[sid].TotalBytes + e.ChunkSize
                    ELSE e.ChunkSize
             /\ \A k \in DOMAIN sessions \ {sid} :
                  sessions'[k].TotalBytes = sessions[k].TotalBytes
     /\ ~ingestStep => \A k \in kept : sessions'[k].TotalBytes = sessions[k].TotalBytes
     /\ \A k \in kept : sessions'[k].TotalBytes >= sessions[k].TotalBytes]_vars

C11_Witness ==
  /\ h.ingested = 2
  /\ \E k \in DOMAIN sessions : sessions[k].TotalBytes = 4 /\ sessions[k].UID = uuidParse(UidA)

\* C12: for every Session of the store start <= last_active, and last_active
\* of a Session that stays in the store never decreases.
C12_LastActiveMonotonic ==
  /\ [](\A k \in DOMAIN sessions : sessions[k].StartTime <= sessions[k].LastActive)
  /\ [][\A k \in kept : sessions'[k].LastActive >= sessions[k].LastActive]_vars

\* C13: the Icecast mapping holds an entry for a client ID iff the store holds
\* an Icecast Session created for that client ID, and the entry maps the ID to
\* the key of that Session.
C13_IcecastMappingInLockStep ==
  /\ DOMAIN icecastSessions =
       {sessions[k].icecastID :
          k \in {j \in DOMAIN sessions : sessions[j].Source = EventSourceIceCast}}
  /\ \A id \in DOMAIN icecastSessions :
       /\ icecastSessions[id] \in DOMAIN sessions
       /\ sessions[icecastSessions[id]].icecastID = id
       /\ sessions[icecastSessions[id]].Source = EventSourceIceCast

C13_Witness ==
  /\ minted = 1 /\ DOMAIN icecastSessions = {} /\ wpc = "select"
  /\ \A k \in DOMAIN sessions : sessions[k].Source # EventSourceIceCast

\* C14: an Icecast event whose client ID is in the mapping resolves to the
\* mapped UUID and is folded into that Session (nothing is minted, no Session
\* is created); an Icecast event whose client ID is not in the mapping (none
\* seen yet, or the Session expired) mints a UUID different from every UUID
\* minted before and creates a Session under it.
C14_IcecastSameWhileLiveFreshAfter ==
  [][ingestStep /\ Head(events).Source = EventSourceIceCast =>
       LET id == Head(events).IcecastID
       IN IF id \in DOMAIN icecastSessions
            THEN /\ icecastSessions' = icecastSessions
                 /\ minted' = minted
                 /\ DOMAIN sessions' = DOMAIN sessions
                 /\ sessions'[icecastSessions[id]].LastActive = Head(events).Time
            ELSE /\ id \in DOMAIN icecastSessions'
                 /\ minted' = minted + 1
                 /\ icecastSessions'[id] \notin {uuidNew(i) : i \in 1..minted}
                 /\ icecastSessions'[id] \notin DOMAIN sessions
                 /\ icecastSessions'[id] \in DOMAIN sessions'
                 /\ sessions'[icecastSessions'[id]].StartTime = Head(events).Time]_vars

C14_Witness ==
  /\ minted = 2 /\ 7 \in DOMAIN icecastSessions
  /\ icecastSessions[7] = uuidNew(2) /\ uuidNew(1) \notin DOMAIN sessions

\* A step in which a flush in progress ends without a row being written.
flushFails ==
  /\ wpc \in {"acquire", "copy"} /\ wpc' \notin {"acquire", "copy"}
  /\ UNCHANGED <<sessionsTable, listenersTable>>

\* C15: flushErrors equals the number of failed batches; a flush that fails
\* adds exactly one to flushErrors, is not started again and drops its batch
\* (after a failed reap the Sessions of the batch are not in the store and
\* were not written); flushErrors changes in no other step.
C15_FailedFlushCountedOnce ==
  /\ [](flushErrors = h.failed)
  /\ [][/\ flushFails =>
             /\ flushErrors' = flushErrors + 1
             /\ batch' = {} /\ op' = "none" /\ ~connHeld'
             /\ op = "reap" => \A r \in batch : r.SID \notin DOMAIN sessions'
             /\ op # "sample" => h'.lost = h.lost + Cardinality(batch)
        /\ flushErrors' # flushErrors => flushFails]_vars

C15_Witness ==
  /\ flushErrors = 2 /\ h.lost >= 1 /\ ~ctxCancelled /\ tableRows = 0
  /\ DOMAIN sessions = {}

\* C16: every Session of the store has its own SID equal to the key it is
\* stored under.
C16_SessionKeyedByOwnSID == \A k \in DOMAIN sessions : sessions[k].SID = k

C16_Witness ==
  /\ DOMAIN sessions = {NilUUID, uuidNew(1)}
  /\ sessions[uuidNew(1)].Source = EventSourceIceCast

\* The provenance and the start time of a Session.
provenance(s) ==
  <<s.UID, s.Codec, s.Quality, s.IP, s.Referer, s.UABrowser, s.UABrowserVersion,
    s.UADevice, s.UAOS, s.Source, s.Mount, s.StartTime>>

\* C17: no step changes the provenance or the start time of a Session that
\* stays in the store; a created Session has the provenance of its event; an
\* event folded into a Session changes only last_active and total_bytes.
C17_ProvenanceImmutable ==
  [][/\ \A k \in kept : provenance(sessions'[k]) = provenance(sessions[k])
     /\ ingestStep =>
          LET e == Head(events)
              sid == resolveSID(e)
          IN IF sid \in DOMAIN sessions
               THEN sessions'[sid] = [sessions[sid] EXCEPT
                                        !.LastActive = sessions'[sid].LastActive,
                                        !.TotalBytes = sessions'[sid].TotalBytes]
               ELSE /\ sessions'[sid].Source = e.Source
                    /\ sessions'[sid].Mount = e.Mount
                    /\ sessions'[sid].Referer = e.Referer
                    /\ sessions'[sid].StartTime = e.Time]_vars

C17_Witness ==
  /\ NilUUID \in DOMAIN sessions /\ h.ingested = 2 /\ h.created = 1
  /\ sessions[NilUUID].UID = uuidParse(UidB) /\ sessions[NilUUID].TotalBytes = 2
  /\ sessions[NilUUID].Codec = CodecAAC /\ sessions[NilUUID].Quality = ChunkQualityLoFi

\* C18: an HLS event whose SID does not parse is stored under the zero UUID:
\* it creates the Session of the zero UUID, with the uid of that event, or is
\* folded into it and leaves its uid alone; no other key appears.  A batch of
\* Sessions holds at most one Session of the zero UUID, and a reap step that
\* expires it puts exactly that Session into its batch.
C18_MalformedSIDsShareZeroUUID ==
  /\ [](op \in {"reap", "final"} => Cardinality({r \in batch : r.SID = NilUUID}) <= 1)
  /\ [][/\ ingestStep /\ Head(events).Source = EventSourceHLS
                      /\ Head(events).SID \notin {SidA, UidA, UidB} =>
             /\ DOMAIN sessions' = DOMAIN sessions \cup {NilUUID}
             /\ sessions'[NilUUID].SID = NilUUID
             /\ sessions'[NilUUID].UID =
                  IF NilUUID \in DOMAIN sessions
                    THEN sessions[NilUUID].UID
                    ELSE uuidParse(Head(events).UID)
        /\ op' = "reap" /\ NilUUID \in DOMAIN sessions /\ NilUUID \notin DOMAIN sessions' =>
             {r \in batch' : r.SID = NilUUID} = {withDuration(sessions[NilUUID])}]_vars

C18_Witness ==
  /\ ~closed /\ tableRows = 1 /\ h.ingested = 2
  /\ \E r \in BagToSet(sessionsTable) :
       r.SID = NilUUID /\ r.UID = uuidParse(UidB) /\ r.TotalBytes = 2

\* C19: every step that dequeues an event ingests it and leaves the worker at
\* its select; afterwards the store holds a Session under the event's UUID;
\* a Session created from malformed values has the zero UUID for a SID or UID
\* that is no UUID, the null IP for an address that does not parse, and codec
\* and quality Unknown for a path without a codec and quality token.
C19_BadInputStillCreatesSession ==
  [][events # <<>> /\ events' = Tail(events) =>
       LET e == Head(events)
           sid == resolveSID(e)
       IN /\ ingestStep /\ wpc' = "select"
          /\ sid \in DOMAIN sessions'
          /\ sid \notin DOMAIN sessions =>
               /\ h'.created = h.created + 1
               /\ e.Source = EventSourceHLS /\ e.SID \notin {SidA, UidA, UidB} =>
                    sessions'[sid].SID = NilUUID
               /\ e.UID \notin {SidA, UidA, UidB} => sessions'[sid].UID = NilUUID
               /\ e.IP[1] \notin {"10.0.0.1", "::1"} => sessions'[sid].IP = NullIP
               /\ Len(e.Path) < 2 =>
                    /\ sessions'[sid].Codec = CodecUnknown
                    /\ sessions'[sid].Quality = ChunkQualityUnknown]_vars

C19_Witness ==
  /\ NilUUID \in DOMAIN sessions
  /\ sessions[NilUUID].UID = NilUUID /\ sessions[NilUUID].IP = NullIP
  /\ sessions[NilUUID].Codec = CodecUnknown /\ sessions[NilUUID].Quality = ChunkQualityUnknown
  /\ sessions[NilUUID].UABrowser = "" /\ sessions[NilUUID].TotalBytes = 1

\* C20: a named Codec and a named ChunkQuality are the parse results of their
\* own names; Unknown prints as "unknown"; a token that is not one of the
\* named lowercase tokens parses to Unknown.
C20_EnumRoundTrip ==
  /\ calc.pc \in {"printed", "parsed"} =>
       /\ calc.codec = CodecUnknown => calc.codecName = "unknown"
       /\ calc.quality = ChunkQualityUnknown => calc.qualityName = "unknown"
  /\ calc.pc = "parsed" =>
       /\ calc.codec \in NamedCodecs => calc.codecBack = calc.codec
       /\ calc.quality \in NamedQualities => calc.qualityBack = calc.quality
       /\ calc.token \notin CodecTokens => calc.tokenCodec = CodecUnknown
       /\ calc.token \notin QualityTokens => calc.tokenQuality = ChunkQualityUnknown

C20_Witness ==
  /\ calc.pc = "parsed" /\ calc.codec = CodecDolbyAtmos /\ calc.codecBack = CodecDolbyAtmos
  /\ calc.quality = ChunkQualityHiFi /\ calc.qualityBack = ChunkQualityHiFi
  /\ calc.token = "MP3" /\ calc.tokenCodec = CodecUnknown

\* ------------------------------------------- claims about enrichment and reaping

\* C21: a Session created from an event whose path is empty or whose file name
\* has fewer than five "_"-separated tokens has codec Unknown and quality
\* Unknown, and the Session is created.
C21_FewerThanFiveTokensUnknown ==
  [][ingestStep /\ resolveSID(Head(events)) \notin DOMAIN sessions
                /\ Len(Head(events).Path) < 5 =>
       LET sid == resolveSID(Head(events))
       IN /\ sid \in DOMAIN sessions'
          /\ sessions'[sid].Codec = CodecUnknown
          /\ sessions'[sid].Quality = ChunkQualityUnknown]_vars

\* C22: the pool exists from construction on and is closed by a Shutdown call
\* that returns, never before the worker has exited and released the
\* connection; once closed it stays closed, whatever the number of Shutdown
\* calls, and every Shutdown call that has returned has left it closed; no
\* sink operation is started, continued or completed after the pool has been
\* closed.
C22_PoolClosedOnceAfterWorker ==
  /\ [](poolClosed => wpc = "exited" /\ ~connHeld /\ someReturned)
  /\ [](someReturned => poolClosed)
  /\ [][/\ poolClosed => poolClosed'
        /\ poolClosed' # poolClosed =>
             \E s \in Callers : spc[s] # "returned" /\ spc'[s] = "returned"
        /\ poolClosed => UNCHANGED <<workerVars, sinkVars, flushErrors>>]_vars

C22_Witness ==
  /\ poolClosed /\ \A s \in Callers : spc[s] = "returned"
  /\ tableRows = 1 /\ flushErrors = 1

\* A step in which a reaper tick expires at least one Session and starts the
\* flush of its batch.
reapStep == wpc = "select" /\ op' = "reap"

\* The keys of the Sessions of source src in the store.
keysOf(src) == {k \in DOMAIN sessions : sessions[k].Source = src}

\* C23: a reaper tick at time now removes an HLS Session from the store and
\* puts it into the tick's batch iff now - last_active > session_timeout; an
\* HLS Session with now - last_active <= session_timeout stays in the store
\* unchanged and is in no batch; an HLS Session leaves the store in no other
\* step.
C23_HLSExpiresStrictlyAfterTimeout ==
  [][/\ reapStep =>
          /\ batch' # {}
          /\ \A k \in keysOf(EventSourceHLS) :
               IF now - sessions[k].LastActive > SessionTimeout
                 THEN /\ k \notin DOMAIN sessions'
                      /\ withDuration(sessions[k]) \in batch'
                 ELSE /\ k \in DOMAIN sessions'
                      /\ sessions'[k] = sessions[k]
                      /\ \A r \in batch' : r.SID # k
     /\ \A k \in keysOf(EventSourceHLS) \ DOMAIN sessions' :
          reapStep /\ now - sessions[k].LastActive > SessionTimeout]_vars

C23_Witness ==
  /\ op = "reap" /\ now = 1
  /\ \E r \in batch : r.Source = EventSourceHLS /\ r.LastActive = 0
  /\ \E k \in keysOf(EventSourceHLS) : sessions[k].LastActive = 1

\* C24: a reaper tick at time now removes an Icecast Session from the store
\* iff last_active > start or now - last_active > icecast_session_timeout; an
\* Icecast Session with last_active = start (or before it) that is not older
\* than the timeout stays in the store unchanged at every tick; an Icecast
\* Session leaves the store in no other step.
C24_IcecastExpiresOnSecondEventOrTimeout ==
  [][/\ reapStep =>
          \A k \in keysOf(EventSourceIceCast) :
            IF \/ sessions[k].LastActive > sessions[k].StartTime
               \/ now - sessions[k].LastActive > IcecastTimeout
              THEN /\ k \notin DOMAIN sessions'
                   /\ withDuration(sessions[k]) \in batch'
              ELSE /\ k \in DOMAIN sessions'
                   /\ sessions'[k] = sessions[k]
                   /\ \A r \in batch' : r.SID # k
     /\ \A k \in keysOf(EventSourceIceCast) \ DOMAIN sessions' :
          /\ reapStep
          /\ \/ sessions[k].LastActive > sessions[k].StartTime
             \/ now - sessions[k].LastActive > IcecastTimeout]_vars

C24_Witness ==
  /\ op = "reap" /\ now = 1 /\ DOMAIN icecastSessions = {}
  /\ \E r \in batch :
       r.Source = EventSourceIceCast /\ r.StartTime = 0 /\ r.LastActive = 1

\* A step in which the worker starts the final flush of the store.
finalStep == wpc = "select" /\ op' = "final"

\* C25: a created Session has start = last_active = the Time of its event and
\* total_bytes = its ChunkSize; a folded event sets last_active to its Time
\* and adds its ChunkSize, and no other step changes the three.  The batch of
\* a reaper tick holds the Sessions it removes and the batch of the final
\* flush every Session of the store, each as it is in the store, with
\* duration = last_active - start; a batch in flight does not change; a
\* successful copy writes one row per Session of the batch, with the start
\* time, the last-active time (column end_time) and total_bytes of that
\* Session.
C25_RowCarriesSessionTimes ==
  [][/\ ingestStep =>
          LET e == Head(events)
              sid == resolveSID(e)
          IN IF sid \in DOMAIN sessions
               THEN /\ sessions'[sid].StartTime = sessions[sid].StartTime
                    /\ sessions'[sid].LastActive = e.Time
                    /\ sessions'[sid].TotalBytes = sessions[sid].TotalBytes + e.ChunkSize
               ELSE /\ sessions'[sid].StartTime = e.Time
                    /\ sessions'[sid].LastActive = e.Time
                    /\ sessions'[sid].TotalBytes = e.ChunkSize
     /\ \A k \in kept :
          ~(ingestStep /\ k = resolveSID(Head(events))) =>
             /\ sessions'[k].StartTime = sessions[k].StartTime
             /\ sessions'[k].LastActive = sessions[k].LastActive
             /\ sessions'[k].TotalBytes = sessions[k].TotalBytes
     /\ reapStep \/ finalStep =>
          LET ks == IF reapStep THEN DOMAIN sessions \ DOMAIN sessions'
                    ELSE DOMAIN sessions
          IN /\ batch' = {[sessions[k] EXCEPT !.Duration =
                             sessions[k].LastActive - sessions[k].StartTime] : k \in ks}
             /\ Cardinality(batch') = Cardinality(ks)
     /\ wpc \in {"acquire", "copy"} /\ wpc' \in {"acquire", "copy"} => batch' = batch
     /\ sessionsTable' # sessionsTable =>
          /\ wpc = "copy" /\ op \in {"reap", "final"}
          /\ BagCardinality(sessionsTable') =
               BagCardinality(sessionsTable) + Cardinality(batch)
          /\ \A s \in batch :
               /\ s.Duration = s.LastActive - s.StartTime
               /\ \E r \in BagToSet(sessionsTable') :
                    /\ CopiesIn(r, sessionsTable') = CopiesIn(r, sessionsTable) + 1
                    /\ r.SID = s.SID
                    /\ r.StartTime = s.StartTime
                    /\ r.LastActive = s.LastActive
                    /\ r.TotalBytes = s.TotalBytes]_vars

C25_Witness ==
  /\ wpc = "exited" /\ h.ingested = 2 /\ h.created = 1
  /\ \E r \in BagToSet(sessionsTable) :
       /\ r.SID = uuidParse(SidA) /\ r.Codec = CodecMP3 /\ r.Quality = ChunkQualityHiFi
       /\ r.StartTime = 0 /\ r.LastActive = 1 /\ r.TotalBytes = 4

\* ------------------------------------------------- claims about sampling

\* C26: no step of a sampling tick (the scan, the acquire, the copy, their
\* failure) changes the store, the Icecast mapping or table sessions; a
\* sampling tick changes flushErrors only when its bulk copy fails, by one;
\* the store changes only in an ingest step, a reap step and the final flush,
\* the Icecast mapping only in an ingest step and a reap step.
C26_SamplingLeavesStoreAlone ==
  [][/\ op = "sample" \/ op' = "sample" =>
          /\ UNCHANGED <<sessions, icecastSessions, minted, sessionsTable>>
          /\ flushErrors' \in {flushErrors, flushErrors + 1}
          /\ flushErrors' # flushErrors => flushFails
          /\ listenersTable' # listenersTable => flushErrors' = flushErrors
     /\ sessions' # sessions => ingestStep \/ reapStep \/ finalStep
     /\ icecastSessions' # icecastSessions => ingestStep \/ reapStep]_vars

C26_Witness ==
  /\ h.samples = 1 /\ flushErrors = 1 /\ h.lost = 0 /\ op = "none"
  /\ listenersTable = EmptyBag
  /\ \E k \in DOMAIN sessions : sessions[k].TotalBytes = 4

\* A step in which a sampling tick has counted a Session and starts its copy.
sampleStep == wpc = "select" /\ op' = "sample"

\* The Sessions of source src on mount mnt that a scan at time t counts: the
\* HLS Sessions with t - last_active <= session_timeout, the Icecast Sessions
\* with start = last_active.
counted(src, mnt, t) ==
  {k \in DOMAIN sessions :
     /\ sessions[k].Source = src /\ sessions[k].Mount = mnt
     /\ IF src = EventSourceHLS
          THEN t - sessions[k].LastActive <= SessionTimeout
          ELSE sessions[k].StartTime = sessions[k].LastActive}

\* The (source, mount) pairs of the store.
buckets == {<<sessions[k].Source, sessions[k].Mount>> : k \in DOMAIN sessions}

producerStep == h'.sent # h.sent \/ ppc' # ppc

shutdownStep == spc' # spc

\* C28: a step of a Send call or of a Shutdown call leaves the store, the
\* Icecast mapping and the worker where they are; the store and the mapping
\* change only in a step the worker takes from its select, which is an ingest
\* step, a reap step or the start of the final flush, and one only: an ingest
\* step removes no Session and starts no flush, a reap step ingests nothing
\* and adds no Session, a sampling step ingests nothing and changes nothing of
\* the store; while a flush is in progress nothing is ingested and the store
\* does not change.
C28_StoreOwnedByWorker ==
  [][/\ producerStep \/ shutdownStep => UNCHANGED <<storeVars, workerVars>>
     /\ sessions' # sessions \/ icecastSessions' # icecastSessions \/ minted' # minted =>
          /\ wpc = "select"
          /\ ingestStep \/ reapStep \/ finalStep
     /\ ingestStep =>
          /\ wpc = "select" /\ UNCHANGED workerVars
          /\ events' = Tail(events)
          /\ DOMAIN sessions \subseteq DOMAIN sessions'
          /\ DOMAIN icecastSessions \subseteq DOMAIN icecastSessions'
     /\ reapStep =>
          /\ h'.ingested = h.ingested /\ events' = events /\ minted' = minted
          /\ DOMAIN sessions' \subseteq DOMAIN sessions
          /\ \A k \in kept : sessions'[k] = sessions[k]
     /\ sampleStep =>
          /\ h'.ingested = h.ingested /\ events' = events
          /\ UNCHANGED storeVars
     /\ wpc # "select" =>
          /\ h'.ingested = h.ingested
          /\ UNCHANGED storeVars
          /\ Len(events') >= Len(events)]_vars

C28_Witness ==
  /\ wpc = "copy" /\ op = "sample" /\ Len(events) = 1 /\ closed
  /\ \E s \in Callers : spc[s] = "select"
  /\ DOMAIN sessions # {}

\* The (producer, number) pairs of the events in the channel, in order.
queued == [i \in 1..Len(events) |-> <<events[i].from, events[i].n>>]

\* The pairs handled, then the pairs in the channel.
delivery == calc.log \o queued

\* C29: the events of one producer are handled, and wait in the channel, in
\* the order of that producer's Send calls; every accepted event is in the
\* channel or has been handled, and no event is there twice; once the channel
\* is drained every accepted event has been handled exactly once.
C29_PerProducerOrderExactlyOnce ==
  calc.pc = "chan" =>
    /\ \A i, j \in 1..Len(delivery) :
         i < j /\ delivery[i][1] = delivery[j][1] => delivery[i][2] < delivery[j][2]
    /\ \A i, j \in 1..Len(delivery) : i # j => delivery[i] # delivery[j]
    /\ {delivery[i] : i \in 1..Len(delivery)} = calc.accepted
    /\ Len(calc.log) = h.ingested
    /\ events = <<>> =>
         /\ Len(calc.log) = Cardinality(calc.accepted)
         /\ {calc.log[i] : i \in 1..Len(calc.log)} = calc.accepted

C29_Witness ==
  /\ calc.pc = "chan" /\ Len(events) = 2
  /\ queued = << <<"p1", 1>>, <<"p1", 2>> >>
  /\ calc.log = << <<"p2", 1>> >> /\ drops = 1

\* C30: an ingest step calls newSessionFromEvent once when the store does not
\* hold the resolved UUID, and then creates the Session, and not at all when
\* it does, and then folds the event; no other step calls it; the number of
\* calls equals the number of Sessions created.
C30_EnrichmentOncePerCreation ==
  /\ [](h.enriched = h.created)
  /\ [][/\ ingestStep =>
             LET sid == resolveSID(Head(events))
             IN IF sid \in DOMAIN sessions
                  THEN /\ h'.enriched = h.enriched
                       /\ DOMAIN sessions' = DOMAIN sessions
                       /\ provenance(sessions'[sid]) = provenance(sessions[sid])
                  ELSE /\ h'.enriched = h.enriched + 1
                       /\ DOMAIN sessions' = DOMAIN sessions \cup {sid}
        /\ ~ingestStep => h'.enriched = h.enriched]_vars

C30_Witness ==
  /\ h.ingested = 2 /\ h.enriched = 2 /\ Cardinality(h.resolved) = 1
  /\ tableRows = 1 /\ Cardinality(DOMAIN sessions) = 1

\* ------------------------------------------- claims about the sink connection

\* C31: the pool's connection is held only while the worker is in the copy of
\* a flush; a worker at its select, or that has exited, holds no connection
\* and has no flush or batch in progress; a flush that calls Acquire finds the
\* connection free; every step that ends a flush, with or without an error,
\* leaves the connection released, and no flush starts while another is in
\* progress.
C31_OneSinkOperationInFlight ==
  /\ [](connHeld => wpc = "copy")
  /\ [](wpc \in {"select", "exited"} => ~connHeld /\ op = "none" /\ batch = {})
  /\ [](wpc \in {"acquire", "copy"} => op \in {"reap", "sample", "final"} /\ batch # {})
  /\ [][/\ wpc \in {"acquire", "copy"} /\ wpc' \notin {"acquire", "copy"} => ~connHeld'
        /\ op' # op /\ op' # "none" => op = "none" /\ wpc = "select" /\ ~connHeld
        /\ ingestStep => ~connHeld /\ op = "none"]_vars

C31_Witness ==
  /\ wpc = "copy" /\ connHeld /\ op = "final"
  /\ tableRows = 1 /\ flushErrors = 1

\* ------------------------------------------------- the request handlers

\* The requests one run of the handlers serves.
MaxRequests == 2

\* The decimal digits, in order of their value.
Digits == <<"0", "1", "2", "3", "4", "5", "6", "7", "8", "9">>

isDigit(c) == \E i \in 1..Len(Digits) : Digits[i] = c

digitValue(c) == (CHOOSE i \in 1..Len(Digits) : Digits[i] = c) - 1

\* The largest magnitudes of a 64-bit signed integer, 2^63 - 1 and 2^63, as
\* decimal text (strconv.ParseInt with bitSize 64).
MaxInt64Text ==
  <<"9", "2", "2", "3", "3", "7", "2", "0", "3", "6", "8", "5", "4", "7", "7",
    "5", "8", "0", "7">>

MinInt64Text ==
  <<"9", "2", "2", "3", "3", "7", "2", "0", "3", "6", "8", "5", "4", "7", "7",
    "5", "8", "0", "8">>

RECURSIVE stripZeros(_)
stripZeros(ds) ==
  IF Len(ds) > 1 /\ ds[1] = "0" THEN stripZeros(Tail(ds)) ELSE ds

\* a > b for two digit texts of the same length.
RECURSIVE digitsGreater(_, _)
digitsGreater(a, b) ==
  IF a = <<>> THEN FALSE
  ELSE IF a[1] # b[1] THEN digitValue(a[1]) > digitValue(b[1])
  ELSE digitsGreater(Tail(a), Tail(b))

\* The number written by ds is larger than the number written by limit.
exceeds(ds, limit) ==
  LET a == stripZeros(ds)
  IN \/ Len(a) > Len(limit)
     \/ Len(a) = Len(limit) /\ digitsGreater(a, limit)

RECURSIVE digitsValue(_)
digitsValue(ds) ==
  IF ds = <<>> THEN 0
  ELSE 10 * digitsValue(SubSeq(ds, 1, Len(ds) - 1)) + digitValue(ds[Len(ds)])

ParseErr == [ok |-> FALSE, value |-> 0]

\* strconv.ParseInt(s, 10, 64): an optional sign followed by one or more
\* decimal digits, within the range of a 64-bit signed integer; the text is a
\* sequence of characters.
parseInt(s) ==
  IF s = <<>> THEN ParseErr
  ELSE LET neg == s[1] = "-"
           ds == IF s[1] \in {"+", "-"} THEN Tail(s) ELSE s
       IN IF ds = <<>> \/ \E i \in 1..Len(ds) : ~isDigit(ds[i]) THEN ParseErr
          ELSE IF exceeds(ds, IF neg THEN MinInt64Text ELSE MaxInt64Text)
            THEN ParseErr
          ELSE [ok |-> TRUE,
                value |-> IF neg THEN 0 - digitsValue(ds) ELSE digitsValue(ds)]

\* The values of the "client" query parameter: the text, whether it writes a
\* 64-bit integer, and which.
ClientInputs ==
  { [text |-> <<>>, int |-> FALSE, value |-> 0],
    [text |-> <<"a">>, int |-> FALSE, value |-> 0],
    [text |-> <<"7", "x">>, int |-> FALSE, value |-> 0],
    [text |-> <<"-">>, int |-> FALSE, value |-> 0],
    [text |-> <<"1", ".", "5">>, int |-> FALSE, value |-> 0],
    [text |-> MinInt64Text, int |-> FALSE, value |-> 0],
    [text |-> <<"0">>, int |-> TRUE, value |-> 0],
    [text |-> <<"-", "0">>, int |-> TRUE, value |-> 0],
    [text |-> <<"7">>, int |-> TRUE, value |-> 7],
    [text |-> <<"0", "7">>, int |-> TRUE, value |-> 7],
    [text |-> <<"+", "7">>, int |-> TRUE, value |-> 7],
    [text |-> <<"-", "3">>, int |-> TRUE, value |-> 0 - 3] }

IcecastURL == "/_in/icecast"

\* Requests for /_in/icecast; ip is the text split at ":".
IcecastRequests ==
  [url : {IcecastURL}, method : {"GET"}, mount : {"", "m"},
   ip : {<<"">>, <<"10.0.0.1">>}, agent : {"", "Mozilla/5.0"},
   client : ClientInputs]
  \cup [url : {IcecastURL}, method : {"POST"}, mount : {"m"},
        ip : {<<"10.0.0.1">>}, agent : {"Mozilla/5.0"},
        client : {c \in ClientInputs : c.text = <<"7">>}]

\* The files a request for any other path can name: the extension and the
\* "_"-separated parts of the base name.
RequestFiles ==
  { [ext |-> ".ts", parts |-> <<"mp3", "hifi", "1700000000", "6.000", "42.ts">>],
    [ext |-> ".m3u8", parts |-> <<"index.m3u8">>],
    [ext |-> ".txt", parts |-> <<"notes.txt">>] }

\* A request for a chunk that is served: the directories of the URL path, the
\* file, what os.Stat and os.Open answer, whether io.Copy succeeds, and the
\* sid and uid the client presents.
ChunkRequest ==
  [url |-> "hls", method |-> "GET", dirs |-> <<"radio1">>,
   file |-> [ext |-> ".ts",
             parts |-> <<"mp3", "hifi", "1700000000", "6.000", "42.ts">>],
   stat |-> "file", copyOk |-> TRUE, sid |-> SidA, uid |-> UidA]

\* Requests for every other path: the chunk request on two mounts and with
\* and without sid and uid, and the requests that differ from it in one
\* respect.
HLSHTTPRequests ==
  {[ChunkRequest EXCEPT !.dirs = d, !.sid = s, !.uid = u] :
     d \in {<<"radio1">>, <<"radio2">>}, s \in {"", SidA}, u \in {"", UidA}}
  \cup {[ChunkRequest EXCEPT !.method = v] : v \in {"HEAD", "OPTIONS", "POST"}}
  \cup {[ChunkRequest EXCEPT !.dirs = <<"..">>]}
  \cup {[ChunkRequest EXCEPT !.file = f] : f \in RequestFiles}
  \cup {[ChunkRequest EXCEPT !.stat = a] :
          a \in {"dir", "missing", "error", "unreadable"}}
  \cup {[ChunkRequest EXCEPT !.copyOk = FALSE]}

\* The handler's answer: the status and the events handed to Send.
answer(status, evs) == [status |-> status, sent |-> evs]

\* icecastHandler accepting client=0.
icecastRejectsZeroAccepted(mount, ip, agent, parsed) ==
  mount = "" \/ ip = <<"">> \/ agent = "" \/ ~parsed.ok

\* The three early returns of icecastHandler (92-106).
icecastRejects(mount, ip, agent, parsed) ==
  \/ mount = "" \/ ip = <<"">> \/ agent = ""
  \/ ~parsed.ok
  \/ parsed.value = 0

\* icecastHandler (cmd/hserv/hserv.go 87-120); the fields the literal does not
\* name keep Go's zero value.
icecastHandler(r, tracker, t) ==
  LET parsed == parseInt(r.client.text)
  IN IF icecastRejects(r.mount, r.ip, r.agent, parsed) THEN answer(400, <<>>)
     ELSE answer(204,
            IF tracker
              THEN <<[Time |-> t, SID |-> "", UID |-> "", IcecastID |-> parsed.value,
                      Mount |-> r.mount, ChunkSize |-> 0, Path |-> <<>>, IP |-> r.ip,
                      UserAgent |-> r.agent, Referer |-> "",
                      Source |-> EventSourceIceCast]>>
              ELSE <<>>)

\* uuid.New().String() in hlsHandler (78, 90): well-formed texts.
SidMinted == "44444444-4444-4444-4444-444444444444"

UidMinted == "55555555-5555-5555-5555-555555555555"

\* hlsHandler (hls.go 19-153): the answers before the file is served, then
\* the chunk branch, which alone calls Send.  The event literal names neither
\* Mount nor IcecastID.
hlsHandler(r, tracker, t) ==
  IF r.method = "OPTIONS" THEN answer(204, <<>>)
  ELSE IF r.dirs[1] = ".." THEN answer(404, <<>>)
  ELSE IF r.file.ext \notin {".ts", ".m3u8"} THEN answer(404, <<>>)
  ELSE IF r.stat = "missing" THEN answer(404, <<>>)
  ELSE IF r.stat = "error" THEN answer(500, <<>>)
  ELSE IF r.stat = "dir" THEN answer(403, <<>>)
  ELSE IF r.method = "HEAD" THEN answer(200, <<>>)
  ELSE IF r.stat = "unreadable" THEN answer(500, <<>>)
  ELSE IF r.file.ext = ".m3u8" THEN answer(200, <<>>)
  ELSE IF ~r.copyOk THEN answer(200, <<>>)
  ELSE answer(200,
         IF tracker
           THEN <<[Time |-> t, SID |-> IF r.sid = "" THEN SidMinted ELSE r.sid,
                   UID |-> IF r.uid = "" THEN UidMinted ELSE r.uid,
                   IcecastID |-> 0, Mount |-> "", ChunkSize |-> 2,
                   Path |-> r.file.parts, IP |-> <<"10.0.0.1", "55555">>,
                   UserAgent |-> "Mozilla/5.0", Referer |-> "",
                   Source |-> EventSourceHLS]>>
           ELSE <<>>)

\* handler (hserv.go 116-129): the method check and the switch on the path.
handler(r, tracker, t) ==
  IF r.method \notin {"GET", "HEAD", "OPTIONS"} THEN answer(405, <<>>)
  ELSE IF r.url = IcecastURL THEN icecastHandler(r, tracker, t)
  ELSE hlsHandler(r, tracker, t)

\* calc holds whether a tracker is configured (h.SessionTracker != nil), the
\* number of requests served, and the last request with its answer.
HandlerInit ==
  /\ TrackerInit
  /\ \E b \in BOOLEAN :
       calc = [pc |-> "handler", tracker |-> b, served |-> 0,
               req |-> [url |-> "none"], status |-> 0, sent |-> <<>>]

\* One request served from start to end; the handler ignores what Send
\* returns.
Serve(r) ==
  /\ calc.pc = "handler"
  /\ calc.served < MaxRequests
  /\ LET out == handler(r, calc.tracker, now)
     IN /\ calc' = [calc EXCEPT !.served = @ + 1, !.req = r,
                                !.status = out.status, !.sent = out.sent]
        /\ IF out.sent = <<>>
             THEN UNCHANGED <<events, drops, h>>
             ELSE LET e == out.sent[1]
                  IN IF selectSend(events, closed) = "sent"
                       THEN /\ events' = chanSend(events, e)
                            /\ drops' = drops
                            /\ h' = [h EXCEPT !.sent = @ + 1, !.accepted = @ + 1,
                                              !.bytes = @ + e.ChunkSize]
                       ELSE /\ events' = events
                            /\ drops' = dropsAdd(drops)
                            /\ h' = [h EXCEPT !.sent = @ + 1, !.rejected = @ + 1]
  /\ UNCHANGED <<closed, flushErrors, ctxCancelled, poolClosed, onceDone, storeVars,
                 workerVars, ppc, shutdownVars, now, sinkVars>>

ServeIcecast == \E r \in IcecastRequests : Serve(r)

ServeHLS == \E r \in HLSHTTPRequests : Serve(r)

HandlerNext == ServeIcecast \/ ServeHLS \/ WorkerRecv

HandlerSpec == HandlerInit /\ [][HandlerNext]_vars

\* A request has been served by icecastHandler.
icecastServed ==
  /\ calc.pc = "handler"
  /\ calc.req.url = IcecastURL
  /\ calc.req.method = "GET"

\* C32: icecastHandler answers 400 and hands nothing to Send when mount, ip or
\* agent is empty or client is zero or does not write an integer; otherwise
\* it answers 204 and, with a tracker configured, hands Send exactly one event
\* with Source Icecast, ChunkSize 0, an empty Path, the client ID and the
\* mount.  A step that serves a request makes as many Send calls as the
\* handler handed events.
C32_IcecastHandlerValidates ==
  /\ [](icecastServed =>
          LET r == calc.req
              bad == \/ r.mount = "" \/ r.ip = <<"">> \/ r.agent = ""
                     \/ ~r.client.int
                     \/ r.client.value = 0
          IN IF bad THEN calc.status = 400 /\ calc.sent = <<>>
             ELSE /\ calc.status = 204
                  /\ IF calc.tracker
                       THEN /\ Len(calc.sent) = 1
                            /\ calc.sent[1].Source = EventSourceIceCast
                            /\ calc.sent[1].ChunkSize = 0
                            /\ calc.sent[1].Path = <<>>
                            /\ calc.sent[1].IcecastID = r.client.value
                            /\ calc.sent[1].Mount = r.mount
                       ELSE calc.sent = <<>>)
  /\ [][calc.pc = "handler" /\ calc'.served # calc.served =>
          /\ h'.sent = h.sent + Len(calc'.sent)
          /\ Len(events') + drops' = Len(events) + drops + Len(calc'.sent)]_vars

\* A rejected request (client=0) after an accepted one whose event, with the
\* negative client ID -3, waits in the channel.
C32_Witness ==
  /\ icecastServed
  /\ calc.served = 2
  /\ calc.req.client.text = <<"0">>
  /\ calc.req.mount = "m" /\ calc.req.ip # <<"">> /\ calc.req.agent # ""
  /\ calc.status = 400
  /\ Len(events) = 1
  /\ events[1].IcecastID = 0 - 3
  /\ events[1].Mount = "m"
  /\ h.sent = 1

\* A chunk request has been served and its event handed to Send.
chunkSubmitted ==
  /\ calc.pc = "handler"
  /\ calc.req.url = "hls"
  /\ calc.sent # <<>>

\* C33: every event hlsHandler hands to Send carries as Mount the first
\* component of the request path.
C33_HLSEventCarriesMount ==
  chunkSubmitted => calc.sent[1].Mount = calc.req.dirs[1]

\* ------------------------------------------------------- HServ.Run (35-114)

\* Run with a tracker configured, as main() builds it: the tracker's sink
\* context is derived (part_003 55) from the context that main() also passes
\* to Run (cmd/hserv/hserv.go 43, 59, 71).  calc holds
\*   run        where Run is: "serving" (in its select), "httpShutdown" (in
\*              srv.Shutdown), "tracker" (past it, at or in the tracker's
\*              Shutdown), "returned"
\*   path       why Run left its select
\*   listening  the server accepts connections
\*   inflight   per request goroutine: "idle", or "running" a handler that has
\*              not reached its Send call, or "panicked" in it
\*   started    the requests accepted so far
RunInit ==
  /\ TrackerInit
  /\ calc = [pc |-> "run", run |-> "serving", path |-> "none", listening |-> TRUE,
             inflight |-> [p \in Producers |-> "idle"], started |-> 0]

\* The server accepts a connection and starts the handler in its goroutine.
RequestStart(p) ==
  /\ calc.pc = "run"
  /\ calc.listening
  /\ calc.run # "returned"
  /\ calc.inflight[p] = "idle"
  /\ calc.started < MaxRequests
  /\ calc' = [calc EXCEPT !.inflight[p] = "running", !.started = @ + 1]
  /\ UNCHANGED <<events, closed, trackerVars, storeVars, workerVars, ppc,
                 shutdownVars, now, sinkVars, h>>

\* The handler calls Send (hls.go 139-151, cmd/hserv/hserv.go 108-117) and
\* answers; a send on the closed channel panics.
RequestSend(p) ==
  /\ calc.pc = "run"
  /\ calc.run # "returned"
  /\ calc.inflight[p] = "running"
  /\ \E e \in EventInputs :
       CASE selectSend(events, closed) = "sent" ->
              /\ events' = chanSend(events, e)
              /\ drops' = drops
              /\ calc' = [calc EXCEPT !.inflight[p] = "idle"]
              /\ h' = [h EXCEPT !.sent = @ + 1, !.accepted = @ + 1,
                                !.bytes = @ + e.ChunkSize]
         [] selectSend(events, closed) = "default" ->
              /\ events' = events
              /\ drops' = dropsAdd(drops)
              /\ calc' = [calc EXCEPT !.inflight[p] = "idle"]
              /\ h' = [h EXCEPT !.sent = @ + 1, !.rejected = @ + 1]
         [] OTHER ->
              /\ UNCHANGED <<events, drops>>
              /\ calc' = [calc EXCEPT !.inflight[p] = "panicked"]
              /\ h' = [h EXCEPT !.sent = @ + 1, !.panicked = @ + 1]
  /\ UNCHANGED <<closed, flushErrors, ctxCancelled, poolClosed, onceDone, storeVars,
                 workerVars, ppc, shutdownVars, now, sinkVars>>

\* The handler returns without a Send call (a playlist, an error answer).
RequestDone(p) ==
  /\ calc.pc = "run"
  /\ calc.run # "returned"
  /\ calc.inflight[p] = "running"
  /\ calc' = [calc EXCEPT !.inflight[p] = "idle"]
  /\ UNCHANGED <<events, closed, trackerVars, storeVars, workerVars, ppc,
                 shutdownVars, now, sinkVars, h>>

\* case <-srvCtx.Done() on SIGINT or SIGTERM (73, 96): Run calls
\* srv.Shutdown, which closes the listeners and waits for the handlers.
RunSignal ==
  /\ calc.pc = "run"
  /\ calc.run = "serving"
  /\ calc' = [calc EXCEPT !.run = "httpShutdown", !.path = "signal",
                          !.listening = FALSE]
  /\ UNCHANGED <<events, closed, trackerVars, storeVars, workerVars, ppc,
                 shutdownVars, now, sinkVars, h>>

\* The tracker's context once its parent is cancelled: ctx, cancel :=
\* context.WithCancel(ctx) (part_003 55) is cancelled with its parent.
parentCancelled(cancelled) == TRUE

\* case <-srvCtx.Done() because the context passed to Run was cancelled: the
\* contexts derived from it are cancelled with it.
RunParentCancel ==
  /\ calc.pc = "run"
  /\ calc.run = "serving"
  /\ calc' = [calc EXCEPT !.run = "httpShutdown", !.path = "parent",
                          !.listening = FALSE]
  /\ ctxCancelled' = parentCancelled(ctxCancelled)
  /\ UNCHANGED <<events, closed, drops, flushErrors, poolClosed, onceDone, storeVars,
                 workerVars, ppc, shutdownVars, now, sinkVars, h>>

\* case err := <-errCh (86-94): ListenAndServe returned; the listeners are
\* closed, the handlers in flight go on, and Run goes to the tracker's
\* Shutdown without srv.Shutdown.
RunServerExit ==
  /\ calc.pc = "run"
  /\ calc.run = "serving"
  /\ calc' = [calc EXCEPT !.run = "tracker", !.path = "exit", !.listening = FALSE]
  /\ UNCHANGED <<events, closed, trackerVars, storeVars, workerVars, ppc,
                 shutdownVars, now, sinkVars, h>>

\* Some handler is in flight.
handlersInFlight == \E p \in Producers : calc.inflight[p] = "running"

\* srv.Shutdown(httpCtx) returns nil: no handler is in flight.
HttpShutdownDone ==
  /\ calc.pc = "run"
  /\ calc.run = "httpShutdown"
  /\ ~handlersInFlight
  /\ calc' = [calc EXCEPT !.run = "tracker"]
  /\ UNCHANGED <<events, closed, trackerVars, storeVars, workerVars, ppc,
                 shutdownVars, now, sinkVars, h>>

\* srv.Shutdown(httpCtx) returns the context's error after 5 seconds with
\* handlers in flight; Run logs it and goes on (102-104).
HttpShutdownTimeout ==
  /\ calc.pc = "run"
  /\ calc.run = "httpShutdown"
  /\ handlersInFlight
  /\ calc' = [calc EXCEPT !.run = "tracker"]
  /\ UNCHANGED <<events, closed, trackerVars, storeVars, workerVars, ppc,
                 shutdownVars, now, sinkVars, h>>

\* The caller of the tracker's Shutdown in Run.
RunCaller == "s1"

\* h.SessionTracker.Shutdown(trackerCtx) (93, 110).
RunTrackerShutdown ==
  /\ calc.pc = "run"
  /\ calc.run = "tracker"
  /\ ShutdownCall(RunCaller)

\* The steps of that Shutdown call: the worker exited, or the 5 seconds of
\* trackerCtx elapsed.
RunTrackerShutdownStep ==
  /\ calc.pc = "run"
  /\ \/ ShutdownDone(RunCaller)
     \/ ShutdownDeadline(RunCaller)
     \/ ShutdownAfterCancel(RunCaller)

\* return err: the process ends (cmd/hserv/hserv.go 71-74).
RunReturn ==
  /\ calc.pc = "run"
  /\ calc.run = "tracker"
  /\ spc[RunCaller] = "returned"
  /\ calc' = [calc EXCEPT !.run = "returned"]
  /\ UNCHANGED <<events, closed, trackerVars, storeVars, workerVars, ppc,
                 shutdownVars, now, sinkVars, h>>

\* The worker and the sink while Run runs.
RunWorker ==
  /\ calc.pc = "run"
  /\ calc.run # "returned"
  /\ \/ WorkerRecv
     \/ WorkerFlushAll
     \/ WorkerReap
     \/ AcquireOk
     \/ AcquireErr
     \/ AcquireCancelled
     \/ CopyOk
     \/ CopyErr
     \/ CopyCancelled
     \/ AdvanceClock

RunNext ==
  \/ \E p \in Producers : RequestStart(p)
  \/ \E p \in Producers : RequestSend(p)
  \/ \E p \in Producers : RequestDone(p)
  \/ RunSignal
  \/ RunParentCancel
  \/ RunServerExit
  \/ HttpShutdownDone
  \/ HttpShutdownTimeout
  \/ RunTrackerShutdown
  \/ RunTrackerShutdownStep
  \/ RunReturn
  \/ RunWorker

RunSpec == RunInit /\ [][RunNext]_vars

\* A handler's Send call.
handlerSendStep == calc.pc = "run" /\ h'.sent # h.sent

\* C34: on both exit paths of Run no handler calls Send once the tracker's
\* Shutdown has closed the event channel.
C34_NoSendAfterClose == [][handlerSendStep => ~closed]_vars

\* Run is on its graceful path.
gracefulPath == calc.pc = "run" /\ calc.path \in {"signal", "parent"}

\* C35: on the graceful path (OS signal or parent context cancelled) the
\* tracker's Shutdown is called only after srv.Shutdown has returned, and the
\* final flush of the remaining Sessions starts with the sink context not
\* cancelled.
C35_HTTPFirstThenLiveFinalFlush ==
  /\ [](gracefulPath /\ spc[RunCaller] # "idle" =>
          ~calc.listening /\ calc.run \in {"tracker", "returned"})
  /\ [][gracefulPath /\ finalStep => ~ctxCancelled]_vars

\* A step in which the deadline branch of a Shutdown call is taken.
deadlineStep == \E s \in Callers : spc[s] = "select" /\ spc'[s] = "cancelled"

handed ==
  tableRows + h.lost + (IF op \in {"reap", "final"} THEN Cardinality(batch) ELSE 0)

\* The Sessions in the store that no batch has taken: after flushAll every
\* Session of the map is in the final batch.
unflushed ==
  IF op = "final" \/ wpc = "exited" THEN 0 ELSE Cardinality(DOMAIN sessions)

\* C37: every Session is handed to the sink in at most one batch.  The
\* Sessions created are, each once, in the store, in the batch in flight,
\* written or lost; a reap step removes from the store exactly the Sessions it
\* puts into its batch, none of which is in the store while the batch is in
\* flight; and after the final batch no further batch is started.
C37_SessionInAtMostOneBatch ==
  /\ [](handed + unflushed = h.created)
  /\ [](op = "reap" => \A s \in batch : s.SID \notin DOMAIN sessions)
  /\ [][/\ reapStep =>
             /\ batch' = {withDuration(sessions[sid]) :
                            sid \in DOMAIN sessions \ DOMAIN sessions'}
             /\ DOMAIN sessions' \subseteq DOMAIN sessions
        /\ op = "final" \/ wpc = "exited" => op' \in {"final", "none"}]_vars

\* The final batch, holding one Session, is being copied after a reap batch
\* with another Session was written.
C37_Witness ==
  /\ op = "final" /\ wpc = "copy"
  /\ Cardinality(batch) = 1
  /\ tableRows = 1
  /\ h.created = 2
  /\ h.lost = 0

\* The session UUID of the event at the head of the channel was resolved
\* before and is not in the store: its Session has been reaped.
headAfterReap ==
  /\ events # <<>>
  /\ resolveSID(Head(events)) \in h.resolved
  /\ resolveSID(Head(events)) \notin DOMAIN sessions

\* C38: the event ingested next for a session UUID whose Session the reaper
\* removed creates a Session anew: start and last_active are the event's
\* Time, total_bytes its ChunkSize, the duration is zero and user, source,
\* mount and referer are the event's; the reaper leaves none of the keys it
\* flushes in the store.
C38_NewSessionAfterReap ==
  [][/\ ingestStep /\ headAfterReap =>
          LET e == Head(events)
              sid == resolveSID(e)
          IN /\ sid \in DOMAIN sessions'
             /\ h'.created = h.created + 1
             /\ sessions'[sid].SID = sid
             /\ sessions'[sid].StartTime = e.Time
             /\ sessions'[sid].LastActive = e.Time
             /\ sessions'[sid].TotalBytes = e.ChunkSize
             /\ sessions'[sid].Duration = 0
             /\ sessions'[sid].UID = uuidParse(e.UID)
             /\ sessions'[sid].Source = e.Source
             /\ sessions'[sid].Mount = e.Mount
             /\ sessions'[sid].Referer = e.Referer
     /\ reapStep => \A s \in batch' : s.SID \notin DOMAIN sessions']_vars

\* The Session of the malformed-SID requests (uuid.Nil) was created by an
\* event of user UidB with one byte, reaped and written; the next event for
\* uuid.Nil, stamped 1, created a Session with that event's unparseable user
\* and its one byte only.
C38_Witness ==
  /\ NilUUID \in DOMAIN sessions
  /\ h.created = 2
  /\ h.resolved = {NilUUID}
  /\ tableRows = 1
  /\ \E r \in BagToSet(sessionsTable) : r.SID = NilUUID /\ r.UID = uuidParse(UidB)
  /\ sessions[NilUUID].StartTime = 1
  /\ sessions[NilUUID].LastActive = 1
  /\ sessions[NilUUID].TotalBytes = 1
  /\ sessions[NilUUID].UID = NilUUID

\* --------------------------------------- BatchBuffer (batchbuffer.go 14-98)

\* size, the number of slots of the buffer.
BufSize == 2

\* DBEvent{}: the zero value of a slot.  Of the 36 fields the model keeps the
\* three copied from the event and the three taken from the User-Agent.
ZeroDBEvent ==
  [Time |-> 0, Path |-> "", Referer |-> "", UABrowser |-> "",
   UABrowserVersion |-> "", UADevice |-> ""]

\* parseEvent(&event, &b.buf[b.wIdx]) (scripts/sql/001_init.sql 204-250): the
\* fields copied from the event are assigned; with an empty User-Agent the
\* function returns at line 219 and the slot keeps its User-Agent fields.
parseEvent(event, dbEvent) ==
  LET copied == [dbEvent EXCEPT !.Time = event.Time, !.Path = event.Path,
                                !.Referer = event.Referer]
  IN IF event.UserAgent = "" THEN copied
     ELSE [copied EXCEPT !.UABrowser = uaParse(event.UserAgent).UABrowser,
                         !.UABrowserVersion = uaParse(event.UserAgent).UABrowserVersion,
                         !.UADevice = uaParse(event.UserAgent).UADevice]

\* NewBatchBuffer(size); buf[i] of the code is buf[i + 1] here.
NewBatchBuffer(size) ==
  [wIdx |-> 0, rIdx |-> 0 - 1, buf |-> [i \in 1..size |-> ZeroDBEvent], err |-> "nil"]

\* Next(): the buffer afterwards and the value returned.
bufNext(b) ==
  [b |-> [b EXCEPT !.rIdx = @ + 1], ok |-> b.rIdx + 1 < b.wIdx]

\* The values of a slot in the order of chunkRequestColumns.
slotValues(c) ==
  <<c.Time, c.Path, c.Referer, c.UABrowser, c.UABrowserVersion, c.UADevice>>

\* Values(): the buffer afterwards, the row and the error returned.
bufValues(b) ==
  IF b.rIdx < 0 \/ b.rIdx >= Len(b.buf)
    THEN [b |-> [b EXCEPT !.err = "ErrIndexOutOfBounds"], row |-> <<>>,
          err |-> "ErrIndexOutOfBounds"]
    ELSE [b |-> b, row |-> slotValues(b.buf[b.rIdx + 1]), err |-> "nil"]

bufReset(b) == [b EXCEPT !.rIdx = 0 - 1, !.wIdx = 0, !.err = "nil"]

\* Add(event)
bufAdd(b, event) ==
  IF b.wIdx < 0 \/ b.wIdx >= Len(b.buf)
    THEN [b EXCEPT !.err = "ErrIndexOutOfBounds"]
    ELSE [b EXCEPT !.buf[b.wIdx + 1] = parseEvent(event, @), !.wIdx = @ + 1]

bufLen(b) == b.wIdx

bufIsFull(b) == b.wIdx >= Len(b.buf)

\* The events added to a buffer.
BufferEvents ==
  [Time : 1..BufSize, Path : {"mp3_hifi_1700000000_6.000_42.ts"},
   Referer : {""}, UserAgent : {"", "Mozilla/5.0"}]

\* The buffer filled by Add and read by a row consumer (pgx CopyFrom: Next,
\* Values, Next, Values, ... until Next returns false), then Reset.  calc holds
\* the buffer b and, since the last Reset,
\*   phase    "fill", then "next" and "values" in turn, then "done"
\*   added    the events whose Add raised Len()
\*   refused  an Add left Len() as it was
\*   trues    the Next calls that returned true
\*   yielded  what the Values calls returned
BufferGhost ==
  [phase |-> "fill", added |-> <<>>, refused |-> FALSE, trues |-> 0, yielded |-> <<>>]

BufferInit ==
  /\ TrackerInit
  /\ calc = [pc |-> "buffer", b |-> NewBatchBuffer(BufSize), before |-> 0] @@ BufferGhost

besidesCalc ==
  <<events, closed, trackerVars, storeVars, workerVars, ppc, shutdownVars, now,
    sinkVars, h>>

BufAdd ==
  /\ calc.pc = "buffer"
  /\ calc.phase = "fill"
  /\ \E e \in BufferEvents :
       LET b2 == bufAdd(calc.b, e)
       IN calc' = [calc EXCEPT
                     !.b = b2,
                     !.before = bufLen(calc.b),
                     !.added = IF bufLen(b2) > bufLen(calc.b) THEN Append(@, e) ELSE @,
                     !.refused = @ \/ bufLen(b2) = bufLen(calc.b)]
  /\ UNCHANGED besidesCalc

BufNext ==
  /\ calc.pc = "buffer"
  /\ calc.phase \in {"fill", "next"}
  /\ LET r == bufNext(calc.b)
     IN calc' = [calc EXCEPT !.b = r.b,
                             !.phase = IF r.ok THEN "values" ELSE "done",
                             !.trues = IF r.ok THEN @ + 1 ELSE @]
  /\ UNCHANGED besidesCalc

BufValues ==
  /\ calc.pc = "buffer"
  /\ calc.phase = "values"
  /\ LET r == bufValues(calc.b)
     IN calc' = [calc EXCEPT !.b = r.b, !.phase = "next",
                             !.yielded = Append(@, [row |-> r.row, err |-> r.err])]
  /\ UNCHANGED besidesCalc

BufReset ==
  /\ calc.pc = "buffer"
  /\ calc' = [pc |-> "buffer", b |-> bufReset(calc.b), before |-> 0] @@ BufferGhost
  /\ UNCHANGED besidesCalc

BufferNext == BufAdd \/ BufNext \/ BufValues \/ BufReset

BufferSpec == BufferInit /\ [][BufferNext]_vars

\* The row of an event: parseEvent on an empty slot, in column order.
eventRow(e) == slotValues(parseEvent(e, ZeroDBEvent))

\* C40: after Reset and k <= size Adds Len() is k, Next() returns true
\* exactly k times and then false, and the i-th Values() call yields the row
\* of the i-th added event without error; 0 <= Len() <= size in every state;
\* an Add on a full buffer stores nothing, leaves Len() unchanged and records
\* ErrIndexOutOfBounds.
C40_BufferYieldsAddedRows ==
  calc.pc = "buffer" =>
    /\ bufLen(calc.b) = Len(calc.added)
    /\ 0 <= bufLen(calc.b) /\ bufLen(calc.b) <= BufSize
    /\ calc.trues <= bufLen(calc.b)
    /\ calc.phase = "done" => calc.trues = bufLen(calc.b)
    /\ Len(calc.yielded) <= calc.trues
    /\ \A i \in 1..Len(calc.yielded) :
         calc.yielded[i] = [row |-> eventRow(calc.added[i]), err |-> "nil"]
    /\ calc.refused => calc.b.err = "ErrIndexOutOfBounds" /\ calc.before = BufSize

\* ------------------------------------------ the batching Writer (writer.go)

\* cfg.ChannelCap of the Writer.
WriterCap == 2

\* The Send calls made on the Writer.
WriterSends == 3

\* cfg.BatchSize: the size of a worker's BatchBuffer.
BatchSize == BufSize

\* cfg.WorkerCount = 2.
WriterWorkers == {"w1", "w2"}

\* A worker after NewBatchBuffer, NewTimer and timer.Stop (114-116).  at is
\* "loop" or "exited"; armed says the timer is running, tick that a value
\* waits in timer.C ("fresh" when the timer fired for the current batch,
\* "stale" when it is left over from an earlier one); early records that the
\* tick received was a stale one.
NewWorker ==
  [at |-> "loop", b |-> NewBatchBuffer(BatchSize), needFlush |-> FALSE,
   armed |-> FALSE, tick |-> "none", early |-> FALSE]

\* calc holds the Writer: the channel and whether it is closed, the context,
\* the Send calls made, the Times of the events Send accepted, the drops and
\* the Send calls that panicked, the workers,
\* the batches handed to the sink (worker, Times of the rows, reason, result),
\* the flush errors and the position of the Shutdown call.
WriterInit ==
  /\ TrackerInit
  /\ calc = [pc |-> "writer", chan |-> <<>>, closed |-> FALSE, cancelled |-> FALSE,
             sends |-> 0, accepted |-> {}, drops |-> 0, panics |-> 0,
             worker |-> [w \in WriterWorkers |-> NewWorker],
             flushed |-> {}, flushErrors |-> 0, shutdown |-> "idle",
             deadline |-> FALSE]

\* The event of the n-th Send call; its Time identifies it.
writerEvent(n, ua) ==
  [Time |-> n, Path |-> "mp3_hifi_1700000000_6.000_42.ts", Referer |-> "",
   UserAgent |-> ua]

\* Send (56-64); a send on the closed channel panics.
WriterSend ==
  /\ calc.pc = "writer"
  /\ calc.sends < WriterSends
  /\ \E ua \in {"", "Mozilla/5.0"} :
       LET e == writerEvent(calc.sends + 1, ua)
       IN IF calc.closed
            THEN calc' = [calc EXCEPT !.sends = @ + 1, !.panics = @ + 1]
            ELSE IF Len(calc.chan) < WriterCap
            THEN calc' = [calc EXCEPT !.sends = @ + 1, !.chan = Append(@, e),
                                      !.accepted = @ \cup {e.Time}]
            ELSE calc' = [calc EXCEPT !.sends = @ + 1, !.drops = @ + 1]
  /\ UNCHANGED besidesCalc

\* The Times of the rows in a buffer.
batchTimes(b) == {b.buf[i].Time : i \in 1..bufLen(b)}

\* timer.Stop() and timer.Reset(d) on a timer whose value waits in timer.C:
\* the Go runtime discards the value from Go 1.23 on and keeps it before.
afterStopOrReset(tick) == IF tick = "none" THEN {"none"} ELSE {"none", "stale"}

\* flush (93-109): nothing for an empty batch; otherwise Acquire and CopyFrom
\* under w.ctx, which fail when the context is cancelled and may fail
\* otherwise.
flushResults(b, cancelled) ==
  IF bufLen(b) = 0 THEN {"empty"}
  ELSE IF cancelled THEN {"err"}
  ELSE {"ok", "err"}

\* The record of a batch handed to the sink.
flushRecord(w, b, why, res) ==
  [by |-> w, rows |-> batchTimes(b), why |-> why, ok |-> res = "ok"]

\* mustFlush flushing only on the timer.
mustFlushOnTimerOnly(wk) == wk.needFlush

\* if batch.IsFull() || needFlush   (125)
mustFlush(wk) == bufIsFull(wk.b) \/ wk.needFlush

\* Lines 125-134: flush, count an error, timer.Stop(), batch.Reset(),
\* needFlush = false, continue.
WriterFlush(w) ==
  LET wk == calc.worker[w]
  IN /\ calc.pc = "writer"
     /\ wk.at = "loop"
     /\ mustFlush(wk)
     /\ \E res \in flushResults(wk.b, calc.cancelled), t \in afterStopOrReset(wk.tick) :
          calc' = [calc EXCEPT
                     !.flushed = IF res = "empty" THEN @
                                 ELSE @ \cup {flushRecord(w, wk.b,
                                                IF bufIsFull(wk.b) THEN "full"
                                                ELSE IF wk.early THEN "stale"
                                                ELSE "timeout", res)},
                     !.flushErrors = IF res = "err" THEN @ + 1 ELSE @,
                     !.worker[w] = [wk EXCEPT !.b = bufReset(@), !.needFlush = FALSE,
                                              !.armed = FALSE, !.tick = t,
                                              !.early = FALSE]]
     /\ UNCHANGED besidesCalc

\* case e, ok := <-w.events with ok: batch.Add(e), and timer.Reset on the
\* first event of the batch (144-147).
WriterRecv(w) ==
  LET wk == calc.worker[w]
  IN /\ calc.pc = "writer"
     /\ wk.at = "loop"
     /\ ~mustFlush(wk)
     /\ calc.chan # <<>>
     /\ LET b2 == bufAdd(wk.b, Head(calc.chan))
        IN \E t \in IF bufLen(b2) = 1 THEN afterStopOrReset(wk.tick) ELSE {wk.tick} :
             calc' = [calc EXCEPT
                        !.chan = Tail(@),
                        !.worker[w] = [wk EXCEPT !.b = b2,
                                                 !.armed = IF bufLen(b2) = 1 THEN TRUE ELSE @,
                                                 !.tick = t]]
     /\ UNCHANGED besidesCalc

\* case e, ok := <-w.events with !ok: flush the batch, count an error, return
\* (137-143).
WriterClosed(w) ==
  LET wk == calc.worker[w]
  IN /\ calc.pc = "writer"
     /\ wk.at = "loop"
     /\ ~mustFlush(wk)
     /\ calc.chan = <<>> /\ calc.closed
     /\ \E res \in flushResults(wk.b, calc.cancelled) :
          calc' = [calc EXCEPT
                     !.flushed = IF res = "empty" THEN @
                                 ELSE @ \cup {flushRecord(w, wk.b, "final", res)},
                     !.flushErrors = IF res = "err" THEN @ + 1 ELSE @,
                     !.worker[w] = [wk EXCEPT !.at = "exited", !.armed = FALSE]]
     /\ UNCHANGED besidesCalc

\* case <-timer.C: needFlush = true   (148-149)
WriterTick(w) ==
  LET wk == calc.worker[w]
  IN /\ calc.pc = "writer"
     /\ wk.at = "loop"
     /\ ~mustFlush(wk)
     /\ wk.tick # "none"
     /\ calc' = [calc EXCEPT !.worker[w] = [wk EXCEPT !.needFlush = TRUE,
                                                      !.tick = "none",
                                                      !.early = wk.tick = "stale"]]
     /\ UNCHANGED besidesCalc

\* case <-w.ctx.Done(): return   (150-151)
WriterCtxDone(w) ==
  LET wk == calc.worker[w]
  IN /\ calc.pc = "writer"
     /\ wk.at = "loop"
     /\ ~mustFlush(wk)
     /\ calc.cancelled
     /\ calc' = [calc EXCEPT !.worker[w] = [wk EXCEPT !.at = "exited", !.armed = FALSE]]
     /\ UNCHANGED besidesCalc

\* BatchTimeout has elapsed since timer.Reset: the timer sends on timer.C.
WriterTimerFires(w) ==
  LET wk == calc.worker[w]
  IN /\ calc.pc = "writer"
     /\ wk.at = "loop"
     /\ wk.armed
     /\ calc' = [calc EXCEPT !.worker[w] = [wk EXCEPT !.armed = FALSE, !.tick = "fresh"]]
     /\ UNCHANGED besidesCalc

\* Shutdown (69-78): w.once.Do(close(w.events)), then the select.
WriterShutdown ==
  /\ calc.pc = "writer"
  /\ calc.shutdown = "idle"
  /\ calc' = [calc EXCEPT !.closed = TRUE, !.shutdown = "select"]
  /\ UNCHANGED besidesCalc

workersExited == \A w \in WriterWorkers : calc.worker[w].at = "exited"

\* case <-done, then w.cancel() and w.pool.Close()   (80, 84-85)
WriterShutdownDone ==
  /\ calc.pc = "writer"
  /\ calc.shutdown = "select"
  /\ workersExited
  /\ calc' = [calc EXCEPT !.cancelled = TRUE, !.shutdown = "returned"]
  /\ UNCHANGED besidesCalc

\* case <-ctx.Done(), then w.cancel() and w.pool.Close()   (81, 84-85)
WriterShutdownDeadline ==
  /\ calc.pc = "writer"
  /\ calc.shutdown = "select"
  /\ ~workersExited
  /\ calc' = [calc EXCEPT !.cancelled = TRUE, !.shutdown = "returned",
                          !.deadline = TRUE]
  /\ UNCHANGED besidesCalc

WriterNext ==
  \/ WriterSend
  \/ \E w \in WriterWorkers : WriterFlush(w)
  \/ \E w \in WriterWorkers : WriterRecv(w)
  \/ \E w \in WriterWorkers : WriterClosed(w)
  \/ \E w \in WriterWorkers : WriterTick(w)
  \/ \E w \in WriterWorkers : WriterCtxDone(w)
  \/ \E w \in WriterWorkers : WriterTimerFires(w)
  \/ WriterShutdown
  \/ WriterShutdownDone
  \/ WriterShutdownDeadline

WriterSpec == WriterInit /\ [][WriterNext]_vars

\* The events a worker holds in a batch it has not handed to the sink.
pending(w) ==
  IF \E f \in calc.flushed : f.by = w /\ f.why = "final" THEN {}
  ELSE batchTimes(calc.worker[w].b)

\* The batches, handed to the sink or held by a worker, that contain the
\* event of Time t, and whether it waits in the channel.
batchesOf(t) ==
  Cardinality({f \in calc.flushed : t \in f.rows})
  + Cardinality({w \in WriterWorkers : t \in pending(w)})

queuedAt(t) == \E i \in 1..Len(calc.chan) : calc.chan[i].Time = t

\* Every accepted event is in the channel or in exactly one batch; no batch
\* holds more than BatchSize events; a batch goes to the sink because it is
\* full, because its worker received a tick of the timer, or as the final
\* batch; a worker whose batch is full or whose needFlush is set does nothing
\* with its batch but flush and reset it, needFlush is set on a tick only,
\* and the timer is armed at the first event of a batch.
batching ==
  /\ [](calc.pc = "writer" =>
          /\ \A t \in calc.accepted :
               IF queuedAt(t) THEN batchesOf(t) = 0 ELSE batchesOf(t) = 1
          /\ \A w \in WriterWorkers : bufLen(calc.worker[w].b) <= BatchSize
          /\ \A f \in calc.flushed :
               /\ f.rows # {}
               /\ Cardinality(f.rows) <= BatchSize
               /\ f.why = "full" => Cardinality(f.rows) = BatchSize)
  /\ [][calc.pc = "writer" =>
          \A w \in WriterWorkers :
            LET wk == calc.worker[w]
                wk2 == calc'.worker[w]
            IN /\ mustFlush(wk) /\ wk2.b # wk.b =>
                    /\ bufLen(wk2.b) = 0
                    /\ bufLen(wk.b) > 0 =>
                         \E f \in calc'.flushed \ calc.flushed :
                           f.by = w /\ f.rows = batchTimes(wk.b)
               /\ wk2.needFlush /\ ~wk.needFlush => wk.tick # "none"
               /\ bufLen(wk.b) = 0 /\ bufLen(wk2.b) = 1 => wk2.armed]_vars

\* Every worker has exited with its last batch handed to the sink and the
\* channel drained.
drainedAndFlushed ==
  /\ calc.chan = <<>>
  /\ \A w \in WriterWorkers : pending(w) = {}
  /\ \A t \in calc.accepted : batchesOf(t) = 1

\* C39 as stated: every accepted event is added to exactly one batch, batches
\* hold at most BatchSize events and are flushed when full or on the timer,
\* and once the channel is closed every worker flushes its final batch before
\* it exits.
C39_EveryEventBatchedAndFlushed ==
  /\ batching
  /\ [](calc.pc = "writer" /\ workersExited => drainedAndFlushed)

\* C39 amended: as above, as long as the Writer's context is not cancelled
\* before the workers have exited (the deadline of Shutdown has not elapsed);
\* once it is cancelled a worker may exit at its select with its batch not
\* flushed and with accepted events left in the channel.
C39_BatchedAndFlushedUnlessCancelled ==
  /\ batching
  /\ [](calc.pc = "writer" /\ workersExited /\ ~calc.deadline => drainedAndFlushed)
  /\ [][calc.pc = "writer" =>
          \A w \in WriterWorkers :
            calc.worker[w].at = "loop" /\ calc'.worker[w].at = "exited" =>
              \/ calc.cancelled
              \/ calc.closed /\ calc.chan = <<>> /\ pending(w)' = {}]_vars

\* Shutdown returned on done: three events were accepted, one batch went to
\* the sink full and one as the final partial batch of a worker.
C39_Witness ==
  /\ calc.pc = "writer"
  /\ calc.shutdown = "returned" /\ ~calc.deadline
  /\ calc.accepted = {1, 2, 3}
  /\ \E f \in calc.flushed : f.why = "full" /\ f.ok
  /\ \E f \in calc.flushed : f.why = "final" /\ Cardinality(f.rows) = 1

====
